---- MODULE Spec2Model ----
(***************************************************************************)
(* A model of the gemm15 event-guest application: the mock/online mode     *)
(* gate (services/supabaseClient.ts), the admin invite generator, the RSVP *)
(* card, the photo moderation buttons and the invite/auth flow (App.tsx,   *)
(* in its current form and in the earlier form kept in the same source     *)
(* file).                                                                  *)
(*                                                                         *)
(* The backend collaborator is modelled by its contract: a select returns  *)
(* the rows of the table, a write that the backend accepts is applied to   *)
(* the table, an insert of a code that already exists is rejected as a     *)
(* whole.  Where a handler reads the error of a call, both outcomes of the *)
(* call are modelled.                                                      *)
(***************************************************************************)
EXTENDS Integers, Sequences, FiniteSets, TLC

VARIABLES
    \* configuration and the module-level values of supabaseClient.ts
    url, key, loaded, isMockMode, supabaseUrl, supabaseAnonKey,
    \* which App component runs: the current one or the earlier one
    app,
    \* backend tables, and the upsert requests the backend accepted last
    invites, rsvps, photos, upsertLog,
    \* the client's clock (new Date())
    clock,
    \* AdminPanel state: the generator, the photo tab, fetchPhotos in flight
    genAmount, genSegment, generating, newInvites,
    activeTab, adminPhotos, photoResponses,
    \* RSVPCard state
    rsvp, rsvpStatus, note, saving,
    \* backend identities: the ids issued, the email accounts, the session
    \* of this browser; and the profiles table
    identities, accounts, session, profiles,
    \* App state
    user, view, isAdmin, toast,
    inviteCode, authError, authMode, email, password, magicLinkSent, loading,
    \* localStorage 'pending_invite_code'
    pendingInviteCode,
    \* the backend calls the last handler made
    calls,
    \* the chat_messages table (its rows are numbered in insertion order),
    \* the chat-insert subscriptions this client holds open, each with the
    \* rows it has still to hand to its callback, the theme subscription,
    \* and the local message list
    chatRows, chatSubs, themeSub, messages,
    \* guests redeeming codes from browsers of their own, one request at a time
    clients,
    \* the photos of the slideshow, and the calls of loadUserData that have not
    \* finished: whose data they load and the request they wait for
    publicPhotos, loads,
    \* the photo card: its uploading flag, the upload it waits for, and the
    \* objects of the bucket user_photos
    uploading, upload, storage,
    \* AdminPanel: the local guest list, and the calls of batchGenerate that
    \* admins have running, each in a browser of its own
    guests, generators

cfgVars == <<url, key, loaded, isMockMode, supabaseUrl, supabaseAnonKey>>
adminVars == <<genAmount, genSegment, generating, newInvites>>
photoVars == <<photos, activeTab, adminPhotos, photoResponses>>
rsvpVars == <<rsvps, upsertLog, rsvp, rsvpStatus, note, saving>>
identityVars == <<identities, accounts, session, profiles>>
authVars ==
    <<inviteCode, authError, authMode, email, password, magicLinkSent, loading,
      pendingInviteCode>>
chatVars == <<chatRows, chatSubs, themeSub, messages>>
loadVars == <<publicPhotos, loads>>
uploadVars == <<uploading, upload, storage>>
panelVars == <<guests, generators>>
sessVars ==
    <<app, user, view, isAdmin, identityVars, authVars, chatVars, loadVars, clients,
      uploadVars, panelVars>>
vars == <<cfgVars, invites, clock, adminVars, photoVars, rsvpVars, sessVars, toast, calls>>

\* ---------------------------------------------------------------- values

\* null / undefined, and a present value
None == {}
Some(x) == {x}
The(s) == CHOOSE x \in s : TRUE

\* ------------------------------------------------------------- bounds

\* longest configuration string drawn for the mode gate
MaxLen == 3
\* highest invite number a batch may reach
MaxNum == 120
\* last reading of the client's clock
MaxClock == 3
\* how many accepted upsert requests the log keeps
LogWindow == 2
\* photos in the table
MaxPhotos == 3
\* answers of fetchPhotos in flight at once
MaxInFlight == 2
\* identities the backend can issue
MaxUsers == 3
\* chat-insert subscriptions a client can hold open
MaxSubs == 2
\* rows of the chat_messages table
MaxChat == 2
\* browsers redeeming codes side by side
MaxClients == 2
\* objects the bucket holds
MaxUploads == 2
\* admins generating codes side by side
MaxGenerators == 2

\* ------------------------------------------------- strings of the config

\* Strings are sequences of letters; the word 'placeholder' is abbreviated
\* to the two letters p h, every other letter is x.
Letters == {"p", "h", "x"}
Placeholder == <<"p", "h">>
\* 'https://placeholder.supabase.co' and 'placeholder-key'
PlaceholderUrl == <<"x", "p", "h">>
PlaceholderKey == <<"p", "h", "x">>
RealUrl == <<"x", "x">>
RealKey == <<"x">>

RECURSIVE StringsUpTo(_)
StringsUpTo(n) ==
    IF n = 0 THEN {<<>>}
    ELSE LET shorter == StringsUpTo(n - 1)
         IN  shorter \cup {Append(s, c) : s \in {t \in shorter : Len(t) = n - 1}, c \in Letters}

\* an environment variable is undefined (None) or a string
ConfigValues == {None} \cup {Some(s) : s \in StringsUpTo(MaxLen)}

\* String.prototype.includes
Includes(s, w) ==
    \E i \in 1..(Len(s) - Len(w) + 1) : SubSeq(s, i, i + Len(w) - 1) = w

\* JavaScript truthiness of an optional string: undefined and '' are falsy
Falsy(v) == v = None \/ The(v) = <<>>

\* export const isMockMode = !url || !key || url.includes('placeholder')
IsMockMode(u, k) == Falsy(u) \/ Falsy(k) \/ Includes(The(u), Placeholder)

\* url || 'https://placeholder.supabase.co'
OrDefault(v, d) == IF Falsy(v) THEN d ELSE The(v)

\* evaluation of the module supabaseClient.ts
loadClient ==
    /\ ~loaded
    /\ loaded' = TRUE
    /\ isMockMode' = IsMockMode(url, key)
    /\ supabaseUrl' = OrDefault(url, PlaceholderUrl)
    /\ supabaseAnonKey' = OrDefault(key, PlaceholderKey)
    /\ UNCHANGED <<url, key, invites, clock, adminVars, photoVars, rsvpVars, sessVars, toast, calls>>

\* ------------------------------------------------------- invite codes

\* An invite code is its prefix and the decimal digits that follow it.
PrefixOf(segment) == IF segment = "YOUNG" THEN "G15-J" ELSE "G15-A"

\* Number.prototype.toString
RECURSIVE ToDigits(_)
ToDigits(n) == IF n < 10 THEN <<n>> ELSE Append(ToDigits(n \div 10), n % 10)

\* String.prototype.padStart(2, '0')
PadStart2(d) == IF Len(d) < 2 THEN <<0>> \o d ELSE d

\* parseInt of a string of digits
RECURSIVE ParseInt(_)
ParseInt(d) ==
    IF Len(d) = 1 THEN d[1]
    ELSE 10 * ParseInt(SubSeq(d, 1, Len(d) - 1)) + d[Len(d)]

\* the order of ORDER BY code on two strings
LexLess(a, b) ==
    \E i \in 1..Len(b) :
        /\ i <= Len(a) + 1
        /\ SubSeq(a, 1, i - 1) = SubSeq(b, 1, i - 1)
        /\ (i = Len(a) + 1 \/ a[i] < b[i])

Code(prefix, n) == [prefix |-> prefix, suffix |-> PadStart2(ToDigits(n))]

\* from('invites').select('code').like('code', prefix%)
\*   .order('code', {ascending: false}).limit(1).single()
LastInvite(prefix) ==
    LET same == {c \in DOMAIN invites : c.prefix = prefix}
    IN  IF same = {} THEN None
        ELSE Some(CHOOSE c \in same :
                    \A d \in same : d = c \/ LexLess(d.suffix, c.suffix))

\* the numbers of the codes of a prefix that exist
NumbersOf(prefix) == {ParseInt(c.suffix) : c \in {d \in DOMAIN invites : d.prefix = prefix}}

Max(S) == CHOOSE x \in S : \A y \in S : y <= x

\* let startNum = 1; if (lastInvite) startNum = parseInt(numPart) + 1
StartNum(prefix) ==
    IF isMockMode THEN 1
    ELSE LET lastInvite == LastInvite(prefix)
         IN  IF lastInvite = None THEN 1
             ELSE ParseInt(The(lastInvite).suffix) + 1

\* the loop that builds newInvites
BuildInvites(prefix, segment, startNum, amount) ==
    [i \in 1..amount |->
        [code |-> Code(prefix, startNum + i - 1), segment |-> segment, is_used |-> FALSE]]

\* from('invites').insert(rows): the code column is unique, one duplicate
\* rejects the statement
InsertRejected(rows) == \E i \in 1..Len(rows) : rows[i].code \in DOMAIN invites

InsertInvites(rows) ==
    [c \in DOMAIN invites \cup {rows[i].code : i \in 1..Len(rows)} |->
        IF c \in DOMAIN invites THEN invites[c]
        ELSE LET r == CHOOSE r \in {rows[i] : i \in 1..Len(rows)} : r.code = c
             IN  [segment |-> r.segment, is_used |-> r.is_used, used_by |-> None]]

Toast(msg, type) == Some([msg |-> msg, type |-> type])

\* the options of the Cantidad select
GenAmounts == {10, 50, 100}

setGenAmount(n) ==
    /\ genAmount # n
    /\ genAmount' = n
    /\ calls' = {}
    /\ UNCHANGED <<cfgVars, invites, clock, genSegment, generating, newInvites, toast>>
    /\ UNCHANGED <<photoVars, rsvpVars, sessVars>>

setGenSegment(s) ==
    /\ genSegment # s
    /\ genSegment' = s
    /\ calls' = {}
    /\ UNCHANGED <<cfgVars, invites, clock, genAmount, generating, newInvites, toast>>
    /\ UNCHANGED <<photoVars, rsvpVars, sessVars>>

batchGenerate ==
    LET prefix == PrefixOf(genSegment)
        startNum == StartNum(prefix)
        rows == BuildInvites(prefix, genSegment, startNum, genAmount)
    IN  /\ ~generating
        /\ startNum + genAmount - 1 <= MaxNum
        /\ newInvites' = rows
        /\ IF ~isMockMode
           THEN IF InsertRejected(rows)
                THEN /\ toast' = Toast("Error generando", "error")
                     /\ invites' = invites
                ELSE /\ toast' = Toast("Generados", "success")
                     /\ invites' = InsertInvites(rows)
           ELSE /\ toast' = Toast("Simulado", "success")
                /\ invites' = invites
        /\ generating' = FALSE
        /\ calls' = IF isMockMode THEN {} ELSE {"invites.select", "invites.insert"}
        /\ UNCHANGED <<cfgVars, clock, genAmount, genSegment, photoVars, rsvpVars, sessVars>>

\* ------------------------------------------------------------- clock

\* time passes between two readings of new Date()
tick ==
    /\ clock < MaxClock
    /\ clock' = clock + 1
    /\ UNCHANGED <<cfgVars, invites, adminVars, photoVars, rsvpVars, sessVars, toast, calls>>

\* ------------------------------------------------------------ profiles

Profile(uid, name, segment) ==
    [user_id |-> uid, name |-> name, segment |-> segment, is_celiac |-> FALSE,
     table |-> None]

\* ---------------------------------------------------------------- RSVP

\* the statuses the buttons of the card pass
RsvpChoices == {"CONFIRMED", "DECLINED"}
\* what is typed into the note input of the earlier card
Notes == {"", "sin TACC"}

\* the rows of a user in the rsvps table
RsvpRowsOf(table, uid) == {r \in table : r.user_id = uid}

\* from('rsvps').insert(payload)
Upsert_InsertOnly(table, payload) ==
    table \cup {[user_id |-> payload.user_id, status |-> payload.status,
                 note |-> payload.note, updated_at |-> payload.updated_at]}

\* from('rsvps').upsert(payload), keyed by user_id: the row of the user is
\* created or replaced; a column the payload does not give keeps its value
Upsert(table, payload) ==
    LET old == RsvpRowsOf(table, payload.user_id)
        row == [user_id |-> payload.user_id,
                status |-> payload.status,
                note |-> IF payload.note = None /\ old # {}
                         THEN (CHOOSE r \in old : TRUE).note
                         ELSE payload.note,
                updated_at |-> payload.updated_at]
    IN  (table \ old) \cup {row}

\* the last LogWindow upsert requests the backend accepted
LogUpsert(payload) ==
    IF Len(upsertLog) < LogWindow THEN Append(upsertLog, payload)
    ELSE Append(Tail(upsertLog), payload)

\* RSVPCard.updateRsvp of the current App; the card offers CONFIRMED only
\* while the local rsvp is not CONFIRMED
updateRsvp(status) ==
    /\ app = "current" /\ view = "HOME"
    /\ status = "CONFIRMED" =>
         (IF rsvp = None THEN TRUE ELSE The(rsvp).status # "CONFIRMED")
    /\ user # None
    /\ LET newRsvp == [user_id |-> The(user).user_id, status |-> status,
                       note |-> None, updated_at |-> clock]
       IN  /\ rsvp' = Some(newRsvp)
           /\ IF ~isMockMode
              THEN \E ok \in BOOLEAN :
                     IF ok
                     THEN /\ rsvps' = Upsert(rsvps, newRsvp)
                          /\ upsertLog' = LogUpsert(newRsvp)
                          /\ toast' = Toast("Asistencia actualizada", "success")
                     ELSE /\ toast' = Toast("Error de red: No se pudo guardar", "error")
                          /\ UNCHANGED <<rsvps, upsertLog>>
              ELSE UNCHANGED <<rsvps, upsertLog, toast>>
    /\ calls' = IF isMockMode THEN {} ELSE {"rsvps.upsert"}
    /\ UNCHANGED <<cfgVars, invites, clock, adminVars, photoVars, sessVars>>
    /\ UNCHANGED <<rsvpStatus, note, saving>>

\* the note input of the earlier card, shown while its status is CONFIRMED
setNote(n) ==
    /\ app = "earlier" /\ view = "HOME"
    /\ rsvpStatus = "CONFIRMED"
    /\ note # n
    /\ note' = n
    /\ calls' = {}
    /\ UNCHANGED <<cfgVars, invites, clock, adminVars, photoVars, sessVars, toast>>
    /\ UNCHANGED <<rsvps, upsertLog, rsvp, rsvpStatus, saving>>

\* RSVPCard.saveRSVP of the earlier App
saveRSVP(newStatus) ==
    /\ app = "earlier" /\ view = "HOME"
    /\ user # None
    /\ rsvpStatus' = newStatus
    /\ LET payload == [user_id |-> The(user).user_id, status |-> newStatus,
                       note |-> Some(note), updated_at |-> clock]
       IN  IF isMockMode
           THEN /\ rsvp' = Some(payload)
                /\ toast' = Toast("Guardado (Modo Demo)", "success")
                /\ UNCHANGED <<rsvps, upsertLog>>
           ELSE \E ok \in BOOLEAN :
                  IF ok
                  THEN /\ rsvps' = Upsert(rsvps, payload)
                       /\ upsertLog' = LogUpsert(payload)
                       /\ rsvp' = Some(payload)
                       /\ toast' = Toast("Respuesta guardada", "success")
                  ELSE /\ toast' = Toast("Error al guardar", "error")
                       /\ UNCHANGED <<rsvps, upsertLog, rsvp>>
    /\ saving' = FALSE
    /\ calls' = IF isMockMode THEN {} ELSE {"rsvps.upsert"}
    /\ UNCHANGED <<cfgVars, invites, clock, adminVars, photoVars, sessVars, note>>

\* ---------------------------------------------------- photo moderation

ModerationChoices == {"APPROVED", "REJECTED"}

\* from('photos').update({ status }) with no filter
UpdatePhotoStatus_NoFilter(table, photoId, status) ==
    [p \in DOMAIN table |-> [table[p] EXCEPT !.status = status]]

\* from('photos').update({ status }).eq('id', photoId)
UpdatePhotoStatus(table, photoId, status) ==
    [p \in DOMAIN table |->
        IF p = photoId THEN [table[p] EXCEPT !.status = status] ELSE table[p]]

\* AdminPanel.fetchPhotos: the select is answered with the rows of the
\* table; the answer is in flight until fetchPhotosDone
FetchPhotos(table) == photoResponses \cup {table}

\* the tab buttons; the effect on activeTab fetches the photos when online
setActiveTab(tab) ==
    /\ view = "ADMIN"
    /\ activeTab # tab
    /\ activeTab' = tab
    /\ IF tab = "PHOTOS" /\ ~isMockMode
       THEN /\ Cardinality(photoResponses) < MaxInFlight
            /\ photoResponses' = FetchPhotos(photos)
       ELSE UNCHANGED photoResponses
    /\ calls' = IF tab = "PHOTOS" /\ ~isMockMode THEN {"photos.select"} ELSE {}
    /\ UNCHANGED <<cfgVars, invites, clock, adminVars, rsvpVars, sessVars, toast>>
    /\ UNCHANGED <<photos, adminPhotos>>

\* if (data) setPhotos(data)
fetchPhotosDone(data) ==
    /\ data \in photoResponses
    /\ photoResponses' = photoResponses \ {data}
    /\ adminPhotos' = IF view = "ADMIN" THEN data ELSE adminPhotos
    /\ UNCHANGED <<cfgVars, invites, clock, adminVars, rsvpVars, sessVars, toast, calls>>
    /\ UNCHANGED <<photos, activeTab>>

\* AdminPanel.moderatePhoto; its two buttons are drawn for the photos the
\* panel holds as PENDING
moderatePhoto(photoId, status) ==
    /\ view = "ADMIN" /\ activeTab = "PHOTOS"
    /\ photoId \in DOMAIN adminPhotos
    /\ adminPhotos[photoId].status = "PENDING"
    /\ Cardinality(photoResponses) < MaxInFlight
    /\ photos' = UpdatePhotoStatus(photos, photoId, status)
    /\ photoResponses' = FetchPhotos(photos')
    /\ calls' = {"photos.update", "photos.select"}
    /\ UNCHANGED <<cfgVars, invites, clock, adminVars, rsvpVars, sessVars, toast>>
    /\ UNCHANGED <<activeTab, adminPhotos>>

\* ------------------------------------------------- invite / auth flow

\* the code box holds text: a code and whether it is typed in lower case
Typed(c, lower) == [code |-> c, lower |-> lower]
\* String.prototype.toUpperCase
ToUpperCase(t) == [t EXCEPT !.lower = FALSE]
\* the empty string
NoCode == [prefix |-> "", suffix |-> <<>>]
\* 'ADMIN-SETUP'
AdminSetup == [prefix |-> "ADMIN-SETUP", suffix |-> <<>>]

\* the error texts; a name that starts with 'Invitado ' is written "Invitado "
MsgInvalidCode == "Código inválido"
MsgAlreadyUsed ==
    IF app = "current" THEN "Este código ya fue activado. Ingresá con tu email."
    ELSE "Este código ya fue usado"
MsgBackend == "backend error"

\* from('invites').select('*').eq('code', code).single()
SelectInvite(code) ==
    IF ~code.lower /\ code.code \in DOMAIN invites
    THEN Some([code |-> code.code,
               segment |-> invites[code.code].segment,
               is_used |-> invites[code.code].is_used])
    ELSE None

VirtualInvite(code, segment) ==
    Some([code |-> code.code, segment |-> segment, is_used |-> FALSE])

\* validateCode without the test of is_used
validateCode_IgnoreUsed(code) ==
    IF isMockMode
    THEN [invite |-> VirtualInvite(code, IF code = Typed(AdminSetup, FALSE)
                                         THEN "ADMIN" ELSE "YOUNG"),
          error |-> "", calls |-> {}]
    ELSE IF code = Typed(AdminSetup, FALSE)
    THEN [invite |-> VirtualInvite(code, "ADMIN"), error |-> "", calls |-> {}]
    ELSE LET invite == SelectInvite(code)
         IN  IF invite = None
             THEN [invite |-> None, error |-> MsgInvalidCode,
                   calls |-> {"invites.select"}]
             ELSE [invite |-> invite, error |-> "", calls |-> {"invites.select"}]

\* validateCode without the test of a missing row
validateCode_NoAbsentCheck(code) ==
    IF isMockMode
    THEN [invite |-> VirtualInvite(code, IF code = Typed(AdminSetup, FALSE)
                                         THEN "ADMIN" ELSE "YOUNG"),
          error |-> "", calls |-> {}]
    ELSE IF code = Typed(AdminSetup, FALSE)
    THEN [invite |-> VirtualInvite(code, "ADMIN"), error |-> "", calls |-> {}]
    ELSE LET invite == SelectInvite(code)
         IN  IF invite # None /\ The(invite).is_used
             THEN [invite |-> None, error |-> MsgAlreadyUsed,
                   calls |-> {"invites.select"}]
             ELSE [invite |-> invite, error |-> "", calls |-> {"invites.select"}]

\* validateCode with the lookup made before the sentinel is tested
validateCode_LookupFirst(code) ==
    LET invite == SelectInvite(code)
    IN  IF isMockMode \/ code = Typed(AdminSetup, FALSE)
        THEN [invite |-> VirtualInvite(code, IF code = Typed(AdminSetup, FALSE)
                                             THEN "ADMIN" ELSE "YOUNG"),
              error |-> "", calls |-> {"invites.select"}]
        ELSE IF invite = None
        THEN [invite |-> None, error |-> MsgInvalidCode, calls |-> {"invites.select"}]
        ELSE IF The(invite).is_used
        THEN [invite |-> None, error |-> MsgAlreadyUsed, calls |-> {"invites.select"}]
        ELSE [invite |-> invite, error |-> "", calls |-> {"invites.select"}]

\* validateCode: the invite, or the message of the error it throws
validateCode(code) ==
    IF isMockMode
    THEN [invite |-> VirtualInvite(code, IF code = Typed(AdminSetup, FALSE)
                                         THEN "ADMIN" ELSE "YOUNG"),
          error |-> "", calls |-> {}]
    ELSE IF code = Typed(AdminSetup, FALSE)
    THEN [invite |-> VirtualInvite(code, "ADMIN"), error |-> "", calls |-> {}]
    ELSE LET invite == SelectInvite(code)
         IN  IF invite = None
             THEN [invite |-> None, error |-> MsgInvalidCode,
                   calls |-> {"invites.select"}]
             ELSE IF The(invite).is_used
             THEN [invite |-> None, error |-> MsgAlreadyUsed,
                   calls |-> {"invites.select"}]
             ELSE [invite |-> invite, error |-> "", calls |-> {"invites.select"}]

\* the state a handler of the flow reads and writes, with no call made yet
Flow ==
    [invites |-> invites, profiles |-> profiles, identities |-> identities,
     accounts |-> accounts, session |-> session,
     user |-> user, view |-> view, isAdmin |-> isAdmin, rsvp |-> rsvp,
     inviteCode |-> inviteCode, authError |-> authError, authMode |-> authMode,
     email |-> email, password |-> password, magicLinkSent |-> magicLinkSent,
     loading |-> loading,
     pendingInviteCode |-> pendingInviteCode, calls |-> {},
     chatSubs |-> chatSubs, messages |-> messages, chatRows |-> chatRows,
     toast |-> toast, publicPhotos |-> publicPhotos]

\* the state after a handler of the build that runs in the page
CommitIn(f, build) ==
    /\ app' = build
    /\ invites' = f.invites /\ profiles' = f.profiles
    /\ identities' = f.identities /\ accounts' = f.accounts
    /\ session' = f.session
    /\ user' = f.user /\ view' = f.view /\ isAdmin' = f.isAdmin /\ rsvp' = f.rsvp
    /\ inviteCode' = f.inviteCode /\ authError' = f.authError
    /\ authMode' = f.authMode /\ email' = f.email /\ password' = f.password
    /\ magicLinkSent' = f.magicLinkSent /\ loading' = f.loading
    /\ pendingInviteCode' = f.pendingInviteCode
    /\ calls' = f.calls
    /\ Len(f.chatSubs) <= MaxSubs
    /\ chatSubs' = f.chatSubs /\ messages' = f.messages
    /\ chatRows' = f.chatRows /\ toast' = f.toast
    /\ publicPhotos' = f.publicPhotos
    /\ UNCHANGED <<themeSub, clients, loads, uploadVars, panelVars>>
    /\ UNCHANGED <<cfgVars, clock, adminVars, photoVars>>
    /\ UNCHANGED <<rsvps, upsertLog, rsvpStatus, note, saving>>

\* the state after the handler
Commit(f) == CommitIn(f, app)

\* setLoading(false)
Done(f) == [f EXCEPT !.loading = FALSE]

\* the calls of loadUserData when online
LoadUserDataCalls ==
    {"rsvps.select", "chat_messages.select", "photos.select", "chat_messages.subscribe"}

\* the photos of the slideshow: the rows of photos with status APPROVED
ApprovedPhotos == {p \in DOMAIN photos : photos[p].status = "APPROVED"}

\* the rows of chat_messages, oldest first
ChatHistory == [i \in 1..chatRows |-> i]
\* the message list of mock mode: the welcome of the bot
MockMessages == <<1>>
\* channel('public:chat_messages').on(INSERT, callback).subscribe(): one more
\* subscription, with nothing to hand over yet
OpenChatChannel(subs) == Append(subs, {})

\* loadUserData: the RSVP row of the user, when there is one, becomes rsvp;
\* the chat history becomes the message list; a chat channel is opened
loadUserData(f, userId) ==
    IF isMockMode THEN [f EXCEPT !.messages = MockMessages]
    ELSE [f EXCEPT !.rsvp = IF RsvpRowsOf(rsvps, userId) = {} THEN @
                            ELSE Some(CHOOSE r \in RsvpRowsOf(rsvps, userId) : TRUE),
                   !.messages = ChatHistory,
                   !.publicPhotos = ApprovedPhotos,
                   !.chatSubs = OpenChatChannel(@),
                   !.calls = @ \cup LoadUserDataCalls]

\* loginUser that sends every profile to HOME
loginUser_NoSetup(f, profile) ==
    loadUserData([f EXCEPT !.user = Some(profile),
                           !.isAdmin = IF profile.segment = "ADMIN" THEN TRUE ELSE @,
                           !.view = "HOME"],
                 profile.user_id)

\* loginUser of the current App
loginUser(f, profile) ==
    IF (profile.name = "" \/ profile.name = "Invitado ") /\ profile.segment # "ADMIN"
    THEN [f EXCEPT !.user = Some(profile), !.view = "PROFILE_SETUP"]
    ELSE loadUserData([f EXCEPT !.user = Some(profile),
                                !.isAdmin = IF profile.segment = "ADMIN" THEN TRUE ELSE @,
                                !.view = "HOME"],
                      profile.user_id)

\* loginUser of the earlier App
loginUser_Earlier(f, profile) ==
    LET g == [f EXCEPT !.user = Some(profile),
                       !.isAdmin = IF profile.segment = "ADMIN"
                                      \/ profile.name = "Administrador"
                                   THEN TRUE ELSE @,
                       !.view = "HOME"]
    IN  IF isMockMode THEN [g EXCEPT !.messages = MockMessages]
        ELSE [g EXCEPT !.rsvp = IF RsvpRowsOf(rsvps, profile.user_id) = {} THEN @
                                ELSE Some(CHOOSE r \in RsvpRowsOf(rsvps, profile.user_id) : TRUE),
                       !.messages = ChatHistory,
                       !.chatSubs = OpenChatChannel(@),
                       !.calls = @ \cup {"rsvps.select", "chat_messages.select",
                                         "chat_messages.subscribe"}]

\* from('profiles').select('*').eq('user_id', userId).single()
SelectProfile(table, userId) == {p \in table : p.user_id = userId}

\* from('invites').update({ is_used: true, used_by: userId }).eq('code', code)
MarkInviteUsed(table, code, userId) ==
    [c \in DOMAIN table |->
        IF c = code THEN [table[c] EXCEPT !.is_used = TRUE, !.used_by = Some(userId)]
        ELSE table[c]]

\* the identities the backend can issue
UserIds == 1..MaxUsers
\* the identity the backend issues next
HasFreshId(f) == UserIds \ f.identities # {}
FreshId(f) == CHOOSE i \in UserIds \ f.identities : \A j \in UserIds \ f.identities : i <= j

\* createProfileAndEnter that enters with the defaults of the invite
createProfileAndEnter_DefaultsWin(f, userId, invite) ==
    LET isAdminLogin == invite.segment = "ADMIN"
        newProfile == Profile(userId, IF isAdminLogin THEN "Administrador" ELSE "",
                              invite.segment)
        existing == SelectProfile(f.profiles, userId)
        marks == ~isAdminLogin /\ invite.code # AdminSetup
    IN  Done(IF isMockMode THEN loginUser(f, newProfile)
        ELSE IF existing = {}
        THEN loginUser([f EXCEPT !.profiles = @ \cup {newProfile},
                                 !.invites = IF marks
                                             THEN MarkInviteUsed(@, invite.code, userId)
                                             ELSE @,
                                 !.calls = @ \cup {"profiles.select", "profiles.insert"}
                                             \cup (IF marks THEN {"invites.update"} ELSE {})],
                       newProfile)
        ELSE loginUser([f EXCEPT !.calls = @ \cup {"profiles.select"}],
                       newProfile))

\* createProfileAndEnter of the current App
createProfileAndEnter(f, userId, invite) ==
    LET isAdminLogin == invite.segment = "ADMIN"
        newProfile == Profile(userId, IF isAdminLogin THEN "Administrador" ELSE "",
                              invite.segment)
        existing == SelectProfile(f.profiles, userId)
        marks == ~isAdminLogin /\ invite.code # AdminSetup
    IN  Done(IF isMockMode THEN loginUser(f, newProfile)
        ELSE IF existing = {}
        THEN loginUser([f EXCEPT !.profiles = @ \cup {newProfile},
                                 !.invites = IF marks
                                             THEN MarkInviteUsed(@, invite.code, userId)
                                             ELSE @,
                                 !.calls = @ \cup {"profiles.select", "profiles.insert"}
                                             \cup (IF marks THEN {"invites.update"} ELSE {})],
                       newProfile)
        ELSE loginUser([f EXCEPT !.calls = @ \cup {"profiles.select"}],
                       CHOOSE p \in existing : TRUE))

\* createProfileAndEnter of the earlier App; pError is set when the backend
\* rejects the insert
createProfileAndEnter_Earlier(f, userId, invite, pError) ==
    LET isAdminLogin == invite.segment = "ADMIN"
        newProfile == Profile(userId, IF isAdminLogin THEN "Administrador" ELSE "Invitado ",
                              invite.segment)
        existing == SelectProfile(f.profiles, userId)
        marks == ~isAdminLogin /\ invite.code # AdminSetup
    IN  Done(IF isMockMode THEN loginUser_Earlier(f, newProfile)
        ELSE IF existing = {}
        THEN loginUser_Earlier(
                 [f EXCEPT !.profiles = IF pError THEN @ ELSE @ \cup {newProfile},
                           !.invites = IF marks
                                       THEN MarkInviteUsed(@, invite.code, userId)
                                       ELSE @,
                           !.calls = @ \cup {"profiles.select", "profiles.insert"}
                                       \cup (IF marks THEN {"invites.update"} ELSE {})],
                 newProfile)
        ELSE loginUser_Earlier(
                 [f EXCEPT !.calls = @ \cup {"profiles.select"}],
                 Profile(userId, (CHOOSE p \in existing : TRUE).name,
                         (CHOOSE p \in existing : TRUE).segment)))

\* handleAuth of the current App
handleAuth ==
    /\ app = "current" /\ view = "AUTH" /\ ~loading /\ authMode = "CODE"
    /\ IF inviteCode = Typed(NoCode, FALSE)
       THEN Commit([Flow EXCEPT !.authError = "Ingresá tu código"])
       ELSE LET v == validateCode(ToUpperCase(inviteCode))
                f == [Flow EXCEPT !.authError = "", !.calls = v.calls, !.loading = TRUE]
            IN  IF v.error # "" THEN Commit([Done(f) EXCEPT !.authError = v.error])
                ELSE IF v.invite = None
                THEN Commit([Done(f) EXCEPT !.authError = "Error validando código"])
                ELSE Commit([Done(f) EXCEPT !.authMode = "EMAIL_REQUIRED"])

\* the user id of a mock session: `mock-user-${Date.now()}`
MockUserId == 0 - clock - 1

\* handleAuth of the earlier App
handleAuth_Earlier ==
    /\ app = "earlier" /\ view = "AUTH" /\ ~loading /\ authMode = "CODE"
    /\ IF inviteCode = Typed(NoCode, FALSE)
       THEN Commit([Flow EXCEPT !.authError = "Ingresá tu código"])
       ELSE LET v == validateCode(ToUpperCase(inviteCode))
                f == [Flow EXCEPT !.authError = "", !.calls = v.calls, !.loading = TRUE]
                g == [f EXCEPT !.calls = @ \cup {"auth.signInAnonymously"}]
            IN  IF v.error # "" THEN Commit([Done(f) EXCEPT !.authError = v.error])
                ELSE IF v.invite = None
                THEN Commit([Done(f) EXCEPT !.authError = "Error validando código"])
                ELSE IF isMockMode
                THEN Commit(createProfileAndEnter_Earlier(f, MockUserId, The(v.invite), FALSE))
                ELSE \E outcome \in {"ok", "disabled", "error"}, pError \in BOOLEAN :
                       IF outcome = "ok"
                       THEN /\ HasFreshId(g)
                            /\ Commit(createProfileAndEnter_Earlier(
                                   [g EXCEPT !.identities = @ \cup {FreshId(g)},
                                             !.session = Some(FreshId(g))],
                                   FreshId(g), The(v.invite), pError))
                       ELSE IF outcome = "disabled"
                       THEN Commit([Done(g) EXCEPT !.authMode = "EMAIL_REQUIRED"])
                       ELSE Commit([Done(g) EXCEPT !.authError = MsgBackend])

\* the answers of the identity service; a request to the placeholder host
\* of mock mode fails; "nouser" is a sign-in answered without error and
\* without a user object
AccountOf(e, pw) == {a \in accounts : a.email = e /\ a.password = pw}
PasswordOutcomes ==
    IF isMockMode THEN {"error"}
    ELSE IF AccountOf(email, password) # {} THEN {"ok", "nouser", "error"}
    ELSE {"invalid", "error"}
SignUpOutcomes ==
    IF isMockMode \/ (\E a \in accounts : a.email = email) THEN {"error"}
    ELSE {"user", "nouser", "error"}
OtpOutcomes == IF isMockMode THEN {"error"} ELSE {"ok", "error"}

MsgVerify ==
    IF app = "current" THEN "Verificá tu email." ELSE "Verificá tu email para continuar."
MsgNoPassword ==
    IF app = "current" THEN "Ingresá una contraseña"
    ELSE "Ingresá una contraseña para el admin"

\* PasswordAuth that falls back to signUp on any sign-in error
PasswordAuth_SignUpOnAnyError(f, o1, o2) ==
    LET g == [f EXCEPT !.calls = @ \cup {"auth.signInWithPassword"}]
        h == [g EXCEPT !.calls = @ \cup {"auth.signUp"}]
    IN  IF o1 = "ok"
        THEN [flow |-> [g EXCEPT !.session = Some((CHOOSE a \in AccountOf(email, password) : TRUE).id)],
              userId |-> Some((CHOOSE a \in AccountOf(email, password) : TRUE).id),
              error |-> ""]
        ELSE IF o1 \notin {"ok", "nouser"}
        THEN IF o2 = "user"
             THEN [flow |-> [h EXCEPT !.identities = @ \cup {FreshId(h)},
                                      !.accounts = @ \cup {[email |-> email,
                                                            password |-> password,
                                                            id |-> FreshId(h)]},
                                      !.session = Some(FreshId(h))],
                   userId |-> Some(FreshId(h)), error |-> ""]
             ELSE IF o2 = "nouser"
             THEN [flow |-> h, userId |-> None, error |-> MsgVerify]
             ELSE [flow |-> h, userId |-> None, error |-> MsgBackend]
        ELSE IF o1 = "nouser"
        THEN [flow |-> [g EXCEPT !.session = Some((CHOOSE a \in AccountOf(email, password) : TRUE).id)],
              userId |-> None, error |-> ""]
        ELSE [flow |-> g, userId |-> None, error |-> MsgBackend]

\* signInWithPassword and, on 'Invalid login', signUp: the flow after the
\* calls, and the user id to enter with or the message thrown
PasswordAuth(f, o1, o2) ==
    LET g == [f EXCEPT !.calls = @ \cup {"auth.signInWithPassword"}]
        h == [g EXCEPT !.calls = @ \cup {"auth.signUp"}]
    IN  IF o1 = "ok"
        THEN [flow |-> [g EXCEPT !.session = Some((CHOOSE a \in AccountOf(email, password) : TRUE).id)],
              userId |-> Some((CHOOSE a \in AccountOf(email, password) : TRUE).id),
              error |-> ""]
        ELSE IF o1 = "invalid"
        THEN IF o2 = "user"
             THEN [flow |-> [h EXCEPT !.identities = @ \cup {FreshId(h)},
                                      !.accounts = @ \cup {[email |-> email,
                                                            password |-> password,
                                                            id |-> FreshId(h)]},
                                      !.session = Some(FreshId(h))],
                   userId |-> Some(FreshId(h)), error |-> ""]
             ELSE IF o2 = "nouser"
             THEN [flow |-> h, userId |-> None, error |-> MsgVerify]
             ELSE [flow |-> h, userId |-> None, error |-> MsgBackend]
        ELSE IF o1 = "nouser"
        THEN [flow |-> [g EXCEPT !.session = Some((CHOOSE a \in AccountOf(email, password) : TRUE).id)],
              userId |-> None, error |-> ""]
        ELSE [flow |-> g, userId |-> None, error |-> MsgBackend]

\* OtpAuth that sends the link without showing the notice
OtpAuth_NoNotice(f, code, o, storesCode) ==
    LET g == [Done(f) EXCEPT !.calls = @ \cup {"auth.signInWithOtp"}]
    IN  IF o = "ok"
        THEN [g EXCEPT !.magicLinkSent = FALSE,
                       !.pendingInviteCode = IF storesCode THEN Some(code) ELSE @]
        ELSE [g EXCEPT !.authError = MsgBackend]

\* signInWithOtp and what follows it
OtpAuth(f, code, o, storesCode) ==
    LET g == [Done(f) EXCEPT !.calls = @ \cup {"auth.signInWithOtp"}]
    IN  IF o = "ok"
        THEN [g EXCEPT !.magicLinkSent = TRUE,
                       !.pendingInviteCode = IF storesCode THEN Some(code) ELSE @]
        ELSE [g EXCEPT !.authError = MsgBackend]

\* handleEmailAuth of the current App
handleEmailAuth ==
    /\ app = "current" /\ view = "AUTH" /\ ~loading /\ authMode = "EMAIL_REQUIRED" /\ ~magicLinkSent
    /\ IF email = ""
       THEN Commit([Flow EXCEPT !.authError = "Ingresá tu email"])
       ELSE LET code == ToUpperCase(inviteCode)
                v == validateCode(code)
                f == [Flow EXCEPT !.authError = "", !.calls = v.calls, !.loading = TRUE]
            IN  IF v.error # "" THEN Commit([Done(f) EXCEPT !.authError = v.error])
                ELSE IF v.invite = None
                THEN Commit([Done(f) EXCEPT !.authError = MsgInvalidCode])
                ELSE IF The(v.invite).code = AdminSetup
                THEN IF password = ""
                     THEN Commit([Done(f) EXCEPT !.authError = MsgNoPassword])
                     ELSE \E o1 \in PasswordOutcomes, o2 \in SignUpOutcomes :
                            /\ (o1 = "invalid" /\ o2 = "user") => HasFreshId(f)
                            /\ LET r == PasswordAuth(f, o1, o2)
                               IN  IF r.userId = None
                                   THEN Commit(IF r.error = "" THEN r.flow
                                               ELSE [Done(r.flow) EXCEPT !.authError = r.error])
                                   ELSE Commit(createProfileAndEnter(
                                            r.flow, The(r.userId), The(v.invite)))
                ELSE \E o \in OtpOutcomes : Commit(OtpAuth(f, code, o, TRUE))

\* handleEmailAuth of the earlier App
handleEmailAuth_Earlier ==
    /\ app = "earlier" /\ view = "AUTH" /\ ~loading /\ authMode = "EMAIL_REQUIRED" /\ ~magicLinkSent
    /\ IF email = ""
       THEN Commit([Flow EXCEPT !.authError = "Ingresá tu email"])
       ELSE LET code == ToUpperCase(inviteCode)
                v == validateCode(code)
                f == [Flow EXCEPT !.authError = "", !.calls = v.calls, !.loading = TRUE]
            IN  IF v.error # "" THEN Commit([Done(f) EXCEPT !.authError = v.error])
                ELSE IF v.invite = None
                THEN Commit([Done(f) EXCEPT !.authError = MsgInvalidCode])
                ELSE IF The(v.invite).code = AdminSetup
                THEN IF password = ""
                     THEN Commit([Done(f) EXCEPT !.authError = MsgNoPassword])
                     ELSE \E o1 \in PasswordOutcomes, o2 \in SignUpOutcomes,
                             pError \in BOOLEAN :
                            /\ (o1 = "invalid" /\ o2 = "user") => HasFreshId(f)
                            /\ LET r == PasswordAuth(f, o1, o2)
                               IN  IF r.userId = None
                                   THEN Commit(IF r.error = "" THEN r.flow
                                               ELSE [Done(r.flow) EXCEPT !.authError = r.error])
                                   ELSE Commit(createProfileAndEnter_Earlier(
                                            r.flow, The(r.userId), The(v.invite), pError))
                ELSE \E o \in OtpOutcomes : Commit(OtpAuth(f, code, o, FALSE))

\* handleLogout of the current App
handleLogout ==
    /\ app = "current" /\ view = "HOME"
    /\ Commit([Flow EXCEPT !.session = IF isMockMode THEN @ ELSE None,
                           !.calls = IF isMockMode THEN {} ELSE {"auth.signOut"},
                           !.user = None, !.isAdmin = FALSE,
                           !.inviteCode = Typed(NoCode, FALSE),
                           !.email = "", !.password = "",
                           !.view = "AUTH", !.authMode = "CODE"])

\* handleLogout of the earlier App
handleLogout_Earlier ==
    /\ app = "earlier" /\ view = "HOME"
    /\ Commit([Flow EXCEPT !.session = IF isMockMode THEN @ ELSE None,
                           !.calls = IF isMockMode THEN {} ELSE {"auth.signOut"},
                           !.user = None, !.isAdmin = FALSE, !.rsvp = None,
                           !.messages = <<>>,
                           !.inviteCode = Typed(NoCode, FALSE),
                           !.authMode = "CODE", !.magicLinkSent = FALSE,
                           !.email = "", !.password = "",
                           !.view = "AUTH"])

\* the inputs of the AUTH screen
setInviteCode(t) ==
    /\ view = "AUTH" /\ ~loading /\ authMode = "CODE"
    /\ inviteCode # ToUpperCase(t)
    /\ Commit([Flow EXCEPT !.inviteCode = ToUpperCase(t)])

setEmail(e) ==
    /\ view = "AUTH" /\ ~loading /\ authMode = "EMAIL_REQUIRED" /\ ~magicLinkSent
    /\ email # e
    /\ Commit([Flow EXCEPT !.email = e])

setPassword(pw) ==
    /\ view = "AUTH" /\ ~loading /\ authMode = "EMAIL_REQUIRED" /\ ~magicLinkSent
    /\ inviteCode = Typed(AdminSetup, FALSE)
    /\ password # pw
    /\ Commit([Flow EXCEPT !.password = pw])

\* the button 'Cambiar Código'
changeCode ==
    /\ view = "AUTH" /\ ~loading /\ authMode = "EMAIL_REQUIRED" /\ ~magicLinkSent
    /\ Commit([Flow EXCEPT !.authMode = "CODE", !.authError = ""])

\* the button 'Volver' under the magic-link notice
backFromMagicLink ==
    /\ view = "AUTH" /\ ~loading /\ authMode = "EMAIL_REQUIRED" /\ magicLinkSent
    /\ Commit([Flow EXCEPT !.magicLinkSent = FALSE, !.authMode = "CODE"])

\* another guest's client redeems an unused code with an identity of its own
otherClientRedeems(code) ==
    /\ ~isMockMode
    /\ code \in DOMAIN invites /\ ~invites[code].is_used
    /\ HasFreshId(Flow)
    /\ identities' = identities \cup {FreshId(Flow)}
    /\ profiles' = profiles \cup {Profile(FreshId(Flow), "Invitado ", invites[code].segment)}
    /\ invites' = MarkInviteUsed(invites, code, FreshId(Flow))
    /\ UNCHANGED <<cfgVars, app, clock, adminVars, photoVars, rsvpVars, toast, calls>>
    /\ UNCHANGED <<accounts, session, user, view, isAdmin, authVars, chatVars, clients>>
    /\ UNCHANGED <<loadVars, uploadVars, panelVars>>

\* ------------------------------------------------------------------ chat

\* a row is inserted into chat_messages: every open channel of the browser
\* is notified of it
InsertChatRow(f) ==
    [f EXCEPT !.chatRows = @ + 1,
              !.chatSubs = [i \in DOMAIN @ |-> @[i] \cup {f.chatRows + 1}]]

\* the id Date.now() gives a message that exists only in the browser
LocalMessageId == 0 - clock - 1

\* the texts typed into the chat input: nothing, a blank, a word, a word
\* after a blank
ChatTexts == {<<>>, <<" ">>, <<"h">>, <<" ", "h">>}

\* String.prototype.trim
RECURSIVE Trim(_)
Trim(s) ==
    IF s = <<>> THEN s
    ELSE IF Head(s) = " " THEN Trim(Tail(s))
    ELSE IF s[Len(s)] = " " THEN Trim(SubSeq(s, 1, Len(s) - 1))
    ELSE s

\* sendMessage of the chat card of the current App: a blank text returns at
\* once; in mock mode the message is appended to the list, online it is
\* inserted and reaches the list through the channel
sendMessageFlow(text) ==
    IF Trim(text) = <<>> THEN Flow
    ELSE IF isMockMode THEN [Flow EXCEPT !.messages = Append(@, LocalMessageId)]
    ELSE [InsertChatRow(Flow) EXCEPT !.calls = {"chat_messages.insert"}]

sendMessage(text) ==
    /\ app = "current" /\ view = "HOME" /\ user # None
    /\ Trim(text) # <<>> =>
          IF isMockMode THEN Len(messages) <= MaxChat ELSE chatRows < MaxChat
    /\ Commit(sendMessageFlow(text))

\* send of the chat card of the earlier App: a blank text returns at once;
\* the message is shown at once and then inserted; an entry of messages
\* names the row the message is stored in
sendFlow_Earlier(text) ==
    IF Trim(text) = <<>> \/ user = None THEN Flow
    ELSE IF isMockMode THEN [Flow EXCEPT !.messages = Append(@, LocalMessageId)]
    ELSE [InsertChatRow(Flow) EXCEPT
              !.messages = Append(@, chatRows + 1),
              !.calls = {"chat_messages.insert"}]

send_Earlier(text) ==
    /\ app = "earlier" /\ view = "HOME" /\ user # None
    /\ Trim(text) # <<>> =>
          IF isMockMode THEN Len(messages) <= MaxChat ELSE chatRows < MaxChat
    /\ Commit(sendFlow_Earlier(text))

\* another guest sends a message from a browser of their own
otherGuestSends ==
    /\ ~isMockMode /\ chatRows < MaxChat
    /\ Commit([InsertChatRow(Flow) EXCEPT !.calls = calls])

\* the callback of a chat channel: it runs for each row as the row is
\* notified, awaits the select of the sender's profile and appends the row
\* when that select is answered; the selects of the rows that wait are
\* answered in any order
deliverChat(i, row) ==
    /\ i \in DOMAIN chatSubs /\ row \in chatSubs[i]
    /\ Commit([Flow EXCEPT !.chatSubs[i] = @ \ {row},
                           !.messages = Append(@, row),
                           !.calls = {"profiles.select"}])

\* the settings button of the header
openAdminPanel ==
    /\ view = "HOME" /\ isAdmin
    /\ Commit([Flow EXCEPT !.view = "ADMIN"])

\* the button 'Volver a Home' of the admin panel of the current App
volverAHome ==
    /\ app = "current" /\ view = "ADMIN"
    /\ Commit(loadUserData([Flow EXCEPT !.view = "HOME"], The(user).user_id))

\* the button 'Volver' of the admin panel of the earlier App
volver_Earlier ==
    /\ app = "earlier" /\ view = "ADMIN"
    /\ Commit([Flow EXCEPT !.view = "HOME"])

\* the names typed in the profile form
Names == {"", " ", "Ana"}
\* name.trim(), on the names above
TrimName(name) == IF name = " " THEN "" ELSE name

\* saveProfile of the profile form; error is set when the backend rejects
\* the update
saveProfile(name, error) ==
    /\ app = "current" /\ view = "PROFILE_SETUP"
    /\ IF TrimName(name) = ""
       THEN Commit([Flow EXCEPT !.toast = Toast("Ingresá tu nombre", "error")])
       ELSE IF isMockMode
       THEN Commit([Flow EXCEPT !.user = Some([The(user) EXCEPT !.name = name]),
                                !.view = "HOME"])
       ELSE IF error
       THEN Commit([Flow EXCEPT !.toast = Toast("Error guardando perfil", "error"),
                                !.calls = {"profiles.update"}])
       ELSE Commit(loadUserData(
                [Flow EXCEPT
                    !.profiles = {IF p.user_id = The(user).user_id
                                  THEN [p EXCEPT !.name = name] ELSE p : p \in @},
                    !.user = Some([The(user) EXCEPT !.name = name]),
                    !.view = "HOME",
                    !.calls = {"profiles.update"}],
                The(user).user_id))

\* --------------------------------------------------------- photo upload

\* a file name is a sequence of characters
Alnum == {"a", "1", "j"}
FileNames == {<<"a", " ", "1", ".", "j">>, <<"a">>}

\* file.name.split('.').pop(): what follows the last dot, the whole name
\* when it has no dot
LastDot(name) ==
    IF \E i \in DOMAIN name : name[i] = "."
    THEN CHOOSE i \in DOMAIN name :
            name[i] = "." /\ \A j \in DOMAIN name : name[j] = "." => j <= i
    ELSE 0
FileExt(name) == SubSeq(name, LastDot(name) + 1, Len(name))

\* file.name.replace(/[^a-zA-Z0-9]/g, '_')
CleanName(name) == [i \in DOMAIN name |-> IF name[i] \in Alnum THEN name[i] ELSE "_"]

\* `${user_id}/${Date.now()}_${cleanName}.${fileExt}`; the earlier App
\* writes `${user.id}/${Date.now()}.${ext}`
StoragePath(uid, now, name) ==
    [owner |-> uid, time |-> now,
     file |-> IF app = "current"
              THEN <<"_">> \o CleanName(name) \o <<".">> \o FileExt(name)
              ELSE <<".">> \o FileExt(name)]

PhotoRow(uid, path) ==
    [user_id |-> uid, storage_path |-> path, status |-> "PENDING", is_featured |-> FALSE]

uploadFrame ==
    <<cfgVars, invites, clock, adminVars, activeTab, adminPhotos, photoResponses,
      rsvpVars, app, user, view, isAdmin, identityVars, authVars, chatVars,
      loadVars, clients, panelVars>>

\* handleUpload of the photo card of the current App, with one file chosen;
\* the card ignores a click while uploading is set
handleUpload(name) ==
    /\ app = "current" /\ view = "HOME" /\ user # None
    /\ ~uploading
    /\ Cardinality(storage) < MaxUploads
    /\ uploading' = TRUE
    /\ upload' = IF isMockMode THEN Some([pc |-> "timer"])
                 ELSE Some([pc |-> "upload", owner |-> The(user).user_id,
                            path |-> StoragePath(The(user).user_id, clock, name)])
    /\ calls' = IF isMockMode THEN {} ELSE {"storage.upload"}
    /\ UNCHANGED <<photos, storage, toast, uploadFrame>>

\* handleFile of the photo card of the earlier App
handleFile_Earlier(name) ==
    /\ app = "earlier" /\ view = "HOME" /\ user # None
    /\ ~uploading
    /\ Cardinality(storage) < MaxUploads
    /\ uploading' = TRUE
    /\ upload' = IF isMockMode THEN Some([pc |-> "timer"])
                 ELSE Some([pc |-> "upload", owner |-> The(user).user_id,
                            path |-> StoragePath(The(user).user_id, clock, name)])
    /\ calls' = IF isMockMode THEN {} ELSE {"storage.upload"}
    /\ UNCHANGED <<photos, storage, toast, uploadFrame>>

\* the timer of mock mode runs out
uploadTimer ==
    /\ upload # None /\ The(upload).pc = "timer"
    /\ uploading' = FALSE
    /\ upload' = None
    /\ toast' = Toast(IF app = "current" THEN "Foto subida (Modo Demo)"
                      ELSE "Foto subida (Simulación)", "success")
    /\ UNCHANGED <<photos, storage, calls, uploadFrame>>

\* the answer of the upload that stores no object and goes on to the insert
uploadAnswered_IgnoreError(error) ==
    /\ upload # None /\ The(upload).pc = "upload"
    /\ upload' = Some([The(upload) EXCEPT !.pc = "insert"])
    /\ storage' = IF error THEN storage ELSE storage \cup {The(upload).path}
    /\ calls' = {"photos.insert"}
    /\ UNCHANGED <<uploading, toast>>
    /\ UNCHANGED <<photos, uploadFrame>>

\* the answer of storage.from('user_photos').upload(fileName, file): on an
\* error the handler throws, shows the toast and clears the flag; else it
\* sends the insert of the row; the bucket refuses a path it already holds
uploadAnswered(error) ==
    /\ upload # None /\ The(upload).pc = "upload"
    /\ The(upload).path \in storage => error
    /\ IF error
       THEN /\ toast' = Toast(IF app = "current" THEN "Error: backend error"
                              ELSE "Error al subir foto", "error")
            /\ uploading' = FALSE
            /\ upload' = None
            /\ UNCHANGED <<storage, calls>>
       ELSE /\ storage' = storage \cup {The(upload).path}
            /\ upload' = Some([The(upload) EXCEPT !.pc = "insert"])
            /\ calls' = {"photos.insert"}
            /\ UNCHANGED <<uploading, toast>>
    /\ UNCHANGED <<photos, uploadFrame>>

\* the answer of from('photos').insert(...); the earlier App does not read
\* its error
insertAnswered(error) ==
    /\ upload # None /\ The(upload).pc = "insert"
    /\ photos' = IF error THEN photos
                 ELSE Append(photos, PhotoRow(The(upload).owner, The(upload).path))
    /\ toast' = IF app = "earlier" THEN Toast("Foto subida! Esperando aprobación.", "success")
                ELSE IF error THEN Toast("Error: backend error", "error")
                ELSE Toast("¡Foto enviada! El admin la revisará.", "success")
    /\ uploading' = FALSE
    /\ upload' = None
    /\ UNCHANGED <<storage, calls, uploadFrame>>

\* ---------------------------------------------- loadUserData, by request

\* loadUserData awaits its selects one after the other; loginUser starts it
\* and does not wait for it, so the screen is in use while a call of
\* loadUserData waits for an answer.  Each action below is the part of
\* loadUserData that runs when one answer arrives.

StartedLoad(userId) == [userId |-> userId, pc |-> "rsvp"]

loadFrame ==
    <<cfgVars, invites, clock, adminVars, photoVars, rsvps, upsertLog, rsvpStatus,
      note, saving, app, user, view, isAdmin, identityVars, authVars, chatRows,
      themeSub, clients, uploadVars, panelVars, toast, calls>>

\* the answer of from('rsvps').select('*').eq('user_id', userId).single()
loadRsvpAnswered(i) ==
    /\ i \in DOMAIN loads /\ loads[i].pc = "rsvp"
    /\ rsvp' = IF RsvpRowsOf(rsvps, loads[i].userId) = {} THEN rsvp
               ELSE Some(CHOOSE r \in RsvpRowsOf(rsvps, loads[i].userId) : TRUE)
    /\ loads' = [loads EXCEPT ![i].pc = "chat"]
    /\ UNCHANGED <<messages, publicPhotos, chatSubs, loadFrame>>

\* the answer of the select of chat_messages; the earlier App has no select
\* of photos and opens the chat channel next
loadChatAnswered(i) ==
    /\ i \in DOMAIN loads /\ loads[i].pc = "chat"
    /\ messages' = ChatHistory
    /\ IF app = "current"
       THEN /\ loads' = [loads EXCEPT ![i].pc = "photos"]
            /\ UNCHANGED chatSubs
       ELSE /\ Len(chatSubs) < MaxSubs
            /\ loads' = [loads EXCEPT ![i].pc = "done"]
            /\ chatSubs' = OpenChatChannel(chatSubs)
    /\ UNCHANGED <<rsvp, publicPhotos, loadFrame>>

\* the answer of the select of the approved photos, then the chat channel
loadPhotosAnswered(i) ==
    /\ i \in DOMAIN loads /\ loads[i].pc = "photos"
    /\ Len(chatSubs) < MaxSubs
    /\ publicPhotos' = ApprovedPhotos
    /\ chatSubs' = OpenChatChannel(chatSubs)
    /\ loads' = [loads EXCEPT ![i].pc = "done"]
    /\ UNCHANGED <<rsvp, messages, loadFrame>>

\* ------------------------------------------- redemptions side by side

\* Guests redeem codes from browsers of their own with the earlier App,
\* whose handleAuth signs in anonymously.  Each action below is the part of
\* handleAuth / createProfileAndEnter between two awaits; the requests of
\* the browsers interleave at the awaits.

raceFrame ==
    <<cfgVars, app, clock, adminVars, photoVars, rsvpVars, toast, calls,
      accounts, session, user, view, isAdmin, authVars, chatVars, loadVars,
      uploadVars, panelVars>>

\* await validateCode(code)
clientValidateCode(c, code) ==
    /\ ~isMockMode
    /\ clients[c].pc = "idle"
    /\ LET v == validateCode(Typed(code, FALSE))
       IN  clients' = [clients EXCEPT ![c].code = code,
                                      ![c].invite = v.invite,
                                      ![c].pc = IF v.error # "" THEN "failed"
                                                ELSE "validated"]
    /\ UNCHANGED <<invites, profiles, identities, raceFrame>>

\* await supabase.auth.signInAnonymously(): a new identity; a browser that
\* still holds the session of an interrupted attempt may be answered with
\* the identity of that session
clientSignIn(c) ==
    /\ clients[c].pc = "validated"
    /\ \/ /\ clients[c].userId # None
          /\ clients' = [clients EXCEPT ![c].pc = "signedIn"]
          /\ UNCHANGED identities
       \/ /\ HasFreshId([identities |-> identities])
          /\ clients' = [clients EXCEPT
                            ![c].pc = "signedIn",
                            ![c].userId = Some(FreshId([identities |-> identities]))]
          /\ identities' = identities \cup {FreshId([identities |-> identities])}
    /\ UNCHANGED <<invites, profiles, raceFrame>>

\* the lookup of the profile and, when there is none, its insert; created
\* collects the profiles the browser has inserted
clientCreateProfile(c) ==
    /\ clients[c].pc = "signedIn"
    /\ LET userId == The(clients[c].userId)
           newProfile == Profile(userId, "Invitado ", The(clients[c].invite).segment)
       IN  IF SelectProfile(profiles, userId) = {}
           THEN /\ profiles' = profiles \cup {newProfile}
                /\ clients' = [clients EXCEPT ![c].pc = "inserted",
                                              ![c].created = @ \cup {newProfile}]
           ELSE /\ clients' = [clients EXCEPT ![c].pc = "done"]
                /\ UNCHANGED profiles
    /\ UNCHANGED <<invites, identities, raceFrame>>

\* the update that marks the invite, then loginUser
clientMarkInvite(c) ==
    /\ clients[c].pc = "inserted"
    /\ invites' = MarkInviteUsed(invites, clients[c].code, The(clients[c].userId))
    /\ clients' = [clients EXCEPT ![c].pc = "done"]
    /\ UNCHANGED <<profiles, identities, raceFrame>>

\* the browser dies or is reloaded during the attempt, once; the session it
\* had stays in its storage
clientCrash(c) ==
    /\ clients[c].pc \in {"validated", "signedIn", "inserted"}
    /\ clients[c].crashedAt = ""
    /\ clients' = [clients EXCEPT ![c].pc = "idle", ![c].invite = None,
                                  ![c].crashedAt = clients[c].pc]
    /\ UNCHANGED <<invites, profiles, identities, raceFrame>>

\* initApp after the reload: a session with a profile is logged in
clientInitApp(c) ==
    /\ clients[c].pc = "idle" /\ clients[c].crashedAt # ""
    /\ clients[c].userId # None
    /\ SelectProfile(profiles, The(clients[c].userId)) # {}
    /\ clients' = [clients EXCEPT ![c].pc = "done"]
    /\ UNCHANGED <<invites, profiles, identities, raceFrame>>

\* ------------------------------------------------------ specifications

InitConfig(u, k) ==
    /\ url = u
    /\ key = k
    /\ loaded = TRUE
    /\ isMockMode = IsMockMode(u, k)
    /\ supabaseUrl = OrDefault(u, PlaceholderUrl)
    /\ supabaseAnonKey = OrDefault(k, PlaceholderKey)

\* the configuration of a deployment, online or without its URL
InitDeployed == \E u \in {None, Some(RealUrl)} : InitConfig(u, Some(RealKey))

\* the browsers admins generate codes from, and one with no call running
GeneratorIds == 1..MaxGenerators
IdleGenerator ==
    [pc |-> "idle", segment |-> "YOUNG", amount |-> 10, seen |-> {}, rows |-> <<>>,
     toast |-> None]

InitAdmin ==
    /\ genAmount = 10
    /\ genSegment = "YOUNG"
    /\ generating = FALSE
    /\ newInvites = <<>>
    /\ activeTab = "GUESTS"
    /\ adminPhotos = <<>>
    /\ photoResponses = {}
    /\ guests = <<>>
    /\ generators = [g \in GeneratorIds |-> IdleGenerator]

InitRsvpCard ==
    /\ rsvp = None
    /\ rsvpStatus = "PENDING"
    /\ note = ""
    /\ saving = FALSE

InitAuthForm ==
    /\ inviteCode = Typed(NoCode, FALSE)
    /\ authError = ""
    /\ authMode = "CODE"
    /\ email = ""
    /\ password = ""
    /\ magicLinkSent = FALSE
    /\ loading = FALSE
    /\ pendingInviteCode = None
    /\ calls = {}

\* the other browsers, and one that has not started a redemption
ClientIds == 1..MaxClients
IdleClient ==
    [pc |-> "idle", code |-> NoCode, invite |-> None, userId |-> None,
     created |-> {}, crashedAt |-> ""]

\* the chat of a browser whose App has mounted, signed in or at the AUTH screen
InitLive(signedIn) ==
    /\ chatRows = 0
    /\ chatSubs = IF signedIn /\ ~isMockMode THEN OpenChatChannel(<<>>) ELSE <<>>
    /\ themeSub = ~isMockMode
    /\ messages = IF signedIn /\ isMockMode THEN MockMessages ELSE <<>>
    /\ clients = [c \in ClientIds |-> IdleClient]
    /\ publicPhotos = {} /\ loads = <<>>
    /\ uploading = FALSE /\ upload = None /\ storage = {}

GuestIds == UserIds
GuestProfile(uid) == Profile(uid, "Ana", "YOUNG")
\* the admin of a running event: identity 0, registered with a password
AdminProfile == Profile(0, "Administrador", "ADMIN")
AdminAccount == [email |-> "adm@x", password |-> "p1", id |-> 0]

\* a signed-in admin
InitAdminSession ==
    /\ identities = {0}
    /\ accounts = IF isMockMode THEN {} ELSE {AdminAccount}
    /\ session = IF isMockMode THEN None ELSE Some(0)
    /\ profiles = IF isMockMode THEN {} ELSE {AdminProfile}
    /\ user = Some(AdminProfile) /\ isAdmin = TRUE
    /\ InitAuthForm
    /\ InitLive(TRUE)

\* the mode gate: every configuration, then the module is evaluated
InitMode ==
    /\ url \in ConfigValues
    /\ key \in ConfigValues
    /\ loaded = FALSE
    /\ isMockMode = FALSE
    /\ supabaseUrl = <<>>
    /\ supabaseAnonKey = <<>>
    /\ app = "current"
    /\ invites = <<>> /\ rsvps = {} /\ photos = <<>> /\ upsertLog = <<>>
    /\ clock = 0
    /\ InitAdmin
    /\ InitRsvpCard
    /\ identities = {} /\ accounts = {} /\ session = None /\ profiles = {}
    /\ user = None /\ isAdmin = FALSE /\ view = "AUTH" /\ toast = None
    /\ InitAuthForm
    /\ chatRows = 0 /\ chatSubs = <<>> /\ themeSub = FALSE /\ messages = <<>>
    /\ clients = [c \in ClientIds |-> IdleClient]
    /\ publicPhotos = {} /\ loads = <<>>
    /\ uploading = FALSE /\ upload = None /\ storage = {}

NextMode == loadClient

SpecMode == InitMode /\ [][NextMode]_vars

\* the invite generator: an admin in the panel, the invites table empty
InitGen ==
    /\ InitDeployed
    /\ app = "current"
    /\ invites = <<>> /\ rsvps = {} /\ photos = <<>> /\ upsertLog = <<>>
    /\ clock = 0
    /\ InitAdmin
    /\ InitRsvpCard
    /\ InitAdminSession
    /\ view = "ADMIN" /\ toast = None

NextGen ==
    \/ \E n \in GenAmounts : setGenAmount(n)
    \/ \E s \in {"YOUNG", "ADULT"} : setGenSegment(s)
    \/ batchGenerate

SpecGen == InitGen /\ [][NextGen]_vars

\* the RSVP card: a guest at HOME in either App; the table may hold the
\* rows other guests saved from their own clients
OtherRsvpRow(uid) ==
    [user_id |-> uid, status |-> "CONFIRMED", note |-> Some("sin TACC"), updated_at |-> 0]

InitRsvp ==
    /\ InitDeployed
    /\ app \in {"current", "earlier"}
    /\ invites = <<>> /\ photos = <<>> /\ upsertLog = <<>>
    /\ clock = 0
    /\ InitAdmin
    /\ InitRsvpCard
    /\ \E uid \in GuestIds :
         /\ user = Some(GuestProfile(uid))
         /\ session = IF isMockMode THEN None ELSE Some(uid)
         /\ \E others \in SUBSET (GuestIds \ {uid}) :
              /\ rsvps = IF isMockMode THEN {} ELSE {OtherRsvpRow(o) : o \in others}
              /\ identities = IF isMockMode THEN {} ELSE {uid} \cup others
              /\ profiles = IF isMockMode THEN {}
                            ELSE {GuestProfile(o) : o \in {uid} \cup others}
    /\ accounts = {} /\ isAdmin = FALSE
    /\ InitAuthForm
    /\ InitLive(TRUE)
    /\ view = "HOME" /\ toast = None

NextRsvp ==
    \/ tick
    \/ \E st \in RsvpChoices : updateRsvp(st)
    \/ \E n \in Notes : setNote(n)
    \/ \E st \in RsvpChoices : saveRSVP(st)

SpecRsvp == InitRsvp /\ [][NextRsvp]_vars

\* photo moderation: an admin in the panel, the photos guests uploaded are
\* PENDING
PhotoIds == 1..MaxPhotos
PendingPhoto(uid) == PhotoRow(uid, StoragePath(uid, 0, <<"a">>))

InitPhoto ==
    /\ InitDeployed
    /\ app = "current"
    /\ invites = <<>> /\ rsvps = {} /\ upsertLog = <<>>
    /\ photos = IF isMockMode THEN <<>> ELSE [p \in PhotoIds |-> PendingPhoto(1)]
    /\ clock = 0
    /\ InitAdmin
    /\ InitRsvpCard
    /\ InitAdminSession
    /\ view = "ADMIN" /\ toast = None

NextPhoto ==
    \/ \E tab \in {"GUESTS", "PHOTOS"} : setActiveTab(tab)
    \/ \E data \in photoResponses : fetchPhotosDone(data)
    \/ \E p \in PhotoIds, st \in ModerationChoices : moderatePhoto(p, st)

SpecPhoto == InitPhoto /\ [][NextPhoto]_vars

\* the invite/auth flow: a browser at the AUTH screen of either App; online,
\* the invites table holds an unused and a used code and the profile of the
\* guest who used it
InviteRow(segment, usedBy) ==
    [segment |-> segment, is_used |-> usedBy # None, used_by |-> usedBy]
InitInvites ==
    [c \in {Code("G15-J", 1), Code("G15-J", 2)} |->
        IF c = Code("G15-J", 1) THEN InviteRow("YOUNG", None)
        ELSE InviteRow("YOUNG", Some(1))]
TypedInputs ==
    {Typed(c, FALSE) : c \in {NoCode, AdminSetup, Code("G15-J", 1), Code("G15-J", 2),
                              Code("G15-J", 3)}}
        \cup {Typed(Code("G15-J", 1), TRUE)}
Emails == {"", "ana@x"}
Passwords == {"", "p1", "p2"}

InitAuth ==
    /\ InitDeployed
    /\ app \in {"current", "earlier"}
    /\ invites = IF isMockMode THEN <<>> ELSE InitInvites
    /\ profiles = IF isMockMode THEN {} ELSE {GuestProfile(1)}
    /\ identities = IF isMockMode THEN {} ELSE {1}
    /\ accounts = {} /\ session = None
    /\ rsvps = {} /\ photos = <<>> /\ upsertLog = <<>>
    /\ clock = 0
    /\ InitAdmin
    /\ InitRsvpCard
    /\ user = None /\ isAdmin = FALSE /\ view = "AUTH" /\ toast = None
    /\ InitAuthForm
    /\ InitLive(FALSE)

NextAuth ==
    \/ \E t \in TypedInputs : setInviteCode(t)
    \/ \E e \in Emails : setEmail(e)
    \/ \E pw \in Passwords : setPassword(pw)
    \/ handleAuth
    \/ handleAuth_Earlier
    \/ handleEmailAuth
    \/ handleEmailAuth_Earlier
    \/ changeCode
    \/ backFromMagicLink
    \/ handleLogout
    \/ handleLogout_Earlier
    \/ \E code \in DOMAIN invites : otherClientRedeems(code)

SpecAuth == InitAuth /\ [][NextAuth]_vars

\* redemptions side by side: online, the invites of InitInvites, every
\* browser idle
InitRace ==
    /\ InitConfig(Some(RealUrl), Some(RealKey))
    /\ app = "earlier"
    /\ invites = InitInvites
    /\ profiles = {GuestProfile(1)}
    /\ identities = {1}
    /\ accounts = {} /\ session = None
    /\ rsvps = {} /\ photos = <<>> /\ upsertLog = <<>>
    /\ clock = 0
    /\ InitAdmin
    /\ InitRsvpCard
    /\ user = None /\ isAdmin = FALSE /\ view = "AUTH" /\ toast = None
    /\ InitAuthForm
    /\ InitLive(FALSE)

NextRace ==
    \/ \E c \in ClientIds, code \in DOMAIN invites : clientValidateCode(c, code)
    \/ \E c \in ClientIds : clientSignIn(c)
    \/ \E c \in ClientIds : clientCreateProfile(c)
    \/ \E c \in ClientIds : clientMarkInvite(c)
    \/ \E c \in ClientIds : clientCrash(c)
    \/ \E c \in ClientIds : clientInitApp(c)

SpecRace == InitRace /\ [][NextRace]_vars

\* the chat of a browser: the admin signed in at HOME, or, in the current
\* App online, a guest whose stored profile has no name yet, at the profile
\* form after initApp found the session
IncompleteProfile == Profile(1, "", "YOUNG")
InitChat ==
    /\ InitDeployed
    /\ app \in {"current", "earlier"}
    /\ invites = IF isMockMode THEN <<>> ELSE InitInvites
    /\ rsvps = {} /\ photos = <<>> /\ upsertLog = <<>>
    /\ clock = 0
    /\ InitAdmin
    /\ InitRsvpCard
    /\ toast = None
    /\ \/ InitAdminSession /\ view = "HOME"
       \/ /\ ~isMockMode /\ app = "current"
          /\ identities = {0, 1}
          /\ accounts = {AdminAccount}
          /\ session = Some(1)
          /\ profiles = {AdminProfile, IncompleteProfile}
          /\ user = Some(IncompleteProfile) /\ isAdmin = FALSE
          /\ view = "PROFILE_SETUP"
          /\ InitAuthForm
          /\ InitLive(FALSE)

NextChat ==
    \/ \E text \in ChatTexts : sendMessage(text)
    \/ \E text \in ChatTexts : send_Earlier(text)
    \/ otherGuestSends
    \/ \E i \in 1..MaxSubs, row \in 1..MaxChat : deliverChat(i, row)
    \/ openAdminPanel
    \/ volverAHome
    \/ volver_Earlier
    \/ \E name \in Names, error \in BOOLEAN : saveProfile(name, error)
    \/ handleLogout
    \/ handleLogout_Earlier
    \/ setInviteCode(Typed(AdminSetup, FALSE))
    \/ setEmail(AdminAccount.email)
    \/ setPassword(AdminAccount.password)
    \/ handleAuth
    \/ handleAuth_Earlier
    \/ handleEmailAuth
    \/ handleEmailAuth_Earlier

SpecChat == InitChat /\ [][NextChat]_vars

\* loadUserData by request: online, guest 1 has just been logged in by
\* loginUser and the call of loadUserData it started waits for its first
\* answer; the guest has answered the RSVP before, or not
InitLoad ==
    /\ InitConfig(Some(RealUrl), Some(RealKey))
    /\ app \in {"current", "earlier"}
    /\ invites = InitInvites
    /\ identities = {1, 2} /\ accounts = {} /\ session = Some(1)
    /\ profiles = {GuestProfile(1), GuestProfile(2)}
    /\ rsvps \in {{}, {OtherRsvpRow(1)}}
    /\ upsertLog = <<>>
    /\ photos = [p \in PhotoIds |->
                    IF p = 1 THEN [PendingPhoto(1) EXCEPT !.status = "APPROVED"]
                    ELSE PendingPhoto(2)]
    /\ clock = 0
    /\ InitAdmin
    /\ InitRsvpCard
    /\ InitAuthForm
    /\ user = Some(GuestProfile(1)) /\ isAdmin = FALSE
    /\ view = "HOME" /\ toast = None
    /\ chatRows = 0 /\ chatSubs = <<>> /\ themeSub = TRUE /\ messages = <<>>
    /\ clients = [c \in ClientIds |-> IdleClient]
    /\ publicPhotos = {}
    /\ loads = <<StartedLoad(1)>>
    /\ uploading = FALSE /\ upload = None /\ storage = {}

NextLoad ==
    \/ \E i \in DOMAIN loads : loadRsvpAnswered(i)
    \/ \E i \in DOMAIN loads : loadChatAnswered(i)
    \/ \E i \in DOMAIN loads : loadPhotosAnswered(i)
    \/ otherGuestSends
    \/ \E i \in 1..MaxSubs, row \in 1..MaxChat : deliverChat(i, row)
    \/ handleLogout
    \/ handleLogout_Earlier

SpecLoad == InitLoad /\ [][NextLoad]_vars

\* the photo card: a guest at HOME in either App, no photo yet
InitUpload ==
    /\ InitDeployed
    /\ app \in {"current", "earlier"}
    /\ invites = <<>> /\ rsvps = {} /\ upsertLog = <<>>
    /\ photos = <<>>
    /\ clock = 0
    /\ InitAdmin
    /\ InitRsvpCard
    /\ user = Some(GuestProfile(1)) /\ isAdmin = FALSE
    /\ session = IF isMockMode THEN None ELSE Some(1)
    /\ identities = IF isMockMode THEN {} ELSE {1}
    /\ profiles = IF isMockMode THEN {} ELSE {GuestProfile(1)}
    /\ accounts = {}
    /\ InitAuthForm
    /\ InitLive(TRUE)
    /\ view = "HOME" /\ toast = None

NextUpload ==
    \/ tick
    \/ \E name \in FileNames : handleUpload(name)
    \/ \E name \in FileNames : handleFile_Earlier(name)
    \/ uploadTimer
    \/ \E error \in BOOLEAN : uploadAnswered(error)
    \/ \E error \in BOOLEAN : insertAnswered(error)

SpecUpload == InitUpload /\ [][NextUpload]_vars

\* ------------------------------------------------------------- claims

\* C10: mock mode is entered if and only if the endpoint URL or the access
\* key is absent or holds a placeholder; stated with the code's own test of
\* a placeholder (the value contains the word), applied to both values.
IsPlaceholderValue(v) == v # None /\ Includes(The(v), Placeholder)

C10_MockIffAbsentOrPlaceholder ==
    loaded =>
        (isMockMode <=>
            (Falsy(url) \/ Falsy(key) \/ IsPlaceholderValue(url) \/ IsPlaceholderValue(key)))

\* the codes prefix+pad2(s) .. prefix+pad2(s+n-1), s one past the highest
\* number that exists for the prefix, or 1
ExpectedCodes(prefix, n) ==
    LET nums == NumbersOf(prefix)
        s == IF nums = {} THEN 1 ELSE Max(nums) + 1
    IN  {Code(prefix, s + i - 1) : i \in 1..n}

\* C5: online, batchGenerate for a segment with count n inserts exactly the
\* n codes prefix+pad2(s) .. prefix+pad2(s+n-1), all unused and of the chosen
\* segment, s being 1 on an empty prefix and the highest existing number
\* plus one otherwise; every other row is left as it was.
C5_BatchInsertsExactlyTheNextCodes ==
    [][(batchGenerate /\ ~isMockMode) =>
        LET expected == ExpectedCodes(PrefixOf(genSegment), genAmount)
        IN  /\ expected \cap DOMAIN invites = {}
            /\ DOMAIN invites' = DOMAIN invites \cup expected
            /\ \A c \in expected :
                 invites'[c] = [segment |-> genSegment, is_used |-> FALSE, used_by |-> None]
            /\ \A c \in DOMAIN invites : invites'[c] = invites[c]]_vars

\* C6: every call's start number exceeds the numeric suffix of every code of
\* the prefix that exists, so no call produces a code that is already in the
\* invites table.
C6_StartExceedsEveryExistingSuffix ==
    [][(batchGenerate /\ ~isMockMode) =>
        /\ \A n \in NumbersOf(PrefixOf(genSegment)) :
             ParseInt(newInvites'[1].code.suffix) > n
        /\ \A i \in 1..Len(newInvites') : newInvites'[i].code \notin DOMAIN invites]_vars

\* C7: a number allocated for a prefix is never allocated again by a later
\* batchGenerate call, whether or not its code has been marked used since.
C7_NoNumberAllocatedTwice ==
    [][(batchGenerate /\ ~isMockMode) =>
        \A i \in 1..Len(newInvites') :
            ParseInt(newInvites'[i].code.suffix) \notin NumbersOf(newInvites'[i].code.prefix)]_vars

\* C8: saving the same attendance status twice for one user leaves exactly
\* one RSVP row for that user, holding that status and the note and
\* timestamp of the later save, and no step changes the rows of any other
\* user.
C8_LastTwoSaves == <<upsertLog[Len(upsertLog) - 1], upsertLog[Len(upsertLog)]>>

C8_OneRowWithLatest ==
    Len(upsertLog) >= 2 =>
        LET a == C8_LastTwoSaves[1]
            b == C8_LastTwoSaves[2]
            rows == RsvpRowsOf(rsvps, b.user_id)
        IN  (a.user_id = b.user_id /\ a.status = b.status) =>
               /\ Cardinality(rows) = 1
               /\ \A r \in rows :
                    /\ r.status = b.status
                    /\ r.updated_at = b.updated_at
                    /\ b.note # None => r.note = b.note

C8_OthersUnchanged ==
    \A uid \in GuestIds :
        RsvpRowsOf(rsvps', uid) # RsvpRowsOf(rsvps, uid) =>
            (user # None /\ uid = The(user).user_id)

C8_UpsertIsIdempotent == []C8_OneRowWithLatest /\ [][C8_OthersUnchanged]_vars

\* the same status saved twice at different times, next to another guest's row
C8_SavedTwice ==
    /\ Len(upsertLog) >= 2
    /\ C8_LastTwoSaves[1].user_id = C8_LastTwoSaves[2].user_id
    /\ C8_LastTwoSaves[1].status = C8_LastTwoSaves[2].status
    /\ C8_LastTwoSaves[1].updated_at < C8_LastTwoSaves[2].updated_at
    /\ \E r \in rsvps : r.user_id # C8_LastTwoSaves[2].user_id

\* C9: a call moderatePhoto(p, st) sets the status of photo p to st and
\* leaves every other photo, and every other column of p, as they were; no
\* other step changes the photos table, so after any sequence of calls the
\* status of p is the argument of the last call for p.
C9_StatusIsLastArgument ==
    [][/\ \A p \in PhotoIds, st \in ModerationChoices :
            moderatePhoto(p, st) =>
                /\ photos'[p] = [photos[p] EXCEPT !.status = st]
                /\ \A q \in DOMAIN photos \ {p} : photos'[q] = photos[q]
       /\ photos' # photos =>
            \E p \in PhotoIds, st \in ModerationChoices : moderatePhoto(p, st)
      ]_vars

\* photo 1 approved and then rejected while the first answer is still in
\* flight, photo 2 never moderated
C9_ModeratedTwice ==
    /\ DOMAIN photos # {}
    /\ photos[1].status = "REJECTED"
    /\ \E data \in photoResponses : data[1].status = "APPROVED"
    /\ photos[2].status = "PENDING"

\* a submit of the AUTH screen: the code form or the email form of either App
SubmitStep == handleAuth \/ handleAuth_Earlier \/ handleEmailAuth \/ handleEmailAuth_Earlier
\* the submit gets as far as validating the code that was entered
ReachesValidation ==
    /\ inviteCode # Typed(NoCode, FALSE)
    /\ authMode = "EMAIL_REQUIRED" => email # ""
\* no table and no identity record changes in the step
NoBackendWrite ==
    /\ invites' = invites /\ profiles' = profiles /\ rsvps' = rsvps /\ photos' = photos
    /\ identities' = identities /\ accounts' = accounts /\ session' = session

\* C1: in online mode, a submit that completes the redemption of an existing
\* unused invite code (the user leaves the AUTH screen signed in) sets
\* is_used and used_by = the redeeming identity on that invite row and on no
\* other, and adds exactly one profile row, keyed by that identity, to the
\* profiles table, changing no other profile row.
C1_RedemptionWritesOneInviteOneProfile ==
    [][\A c \in DOMAIN invites :
          (/\ SubmitStep /\ ~isMockMode
           /\ inviteCode = Typed(c, FALSE) /\ ~invites[c].is_used
           /\ view = "AUTH" /\ view' # "AUTH" /\ user' # None)
          => LET id == (CHOOSE u \in user' : TRUE).user_id
             IN  /\ DOMAIN invites' = DOMAIN invites
                 /\ invites'[c] = [invites[c] EXCEPT !.is_used = TRUE, !.used_by = {id}]
                 /\ \A d \in DOMAIN invites \ {c} : invites'[d] = invites[d]
                 /\ profiles \subseteq profiles'
                 /\ Cardinality(profiles' \ profiles) = 1
                 /\ \A p \in profiles' \ profiles : p.user_id = id
                 /\ Cardinality({p \in profiles' : p.user_id = id}) = 1
      ]_vars

\* C2: online, a submit (code form or email form) with a code whose invite
\* row has is_used = true ends with the already-used message in authError,
\* stays signed out on the AUTH screen, and makes no backend call but the
\* lookup of the invite: no table and no identity record changes.
C2_UsedCodeFailsWithoutWrites ==
    [][(/\ SubmitStep /\ ~isMockMode /\ ReachesValidation
        /\ inviteCode.code \in DOMAIN invites
        /\ invites[inviteCode.code].is_used)
       => /\ authError' = MsgAlreadyUsed
          /\ user' = None /\ view' = "AUTH" /\ authMode' = authMode
          /\ calls' = {"invites.select"}
          /\ NoBackendWrite
      ]_vars

\* the email form refused a code that another client used after it validated
C2_UsedCodeRefusedAtEmailForm ==
    /\ ~isMockMode
    /\ authMode = "EMAIL_REQUIRED" /\ email # ""
    /\ inviteCode = Typed(Code("G15-J", 1), FALSE)
    /\ invites[Code("G15-J", 1)].is_used
    /\ authError = MsgAlreadyUsed
    /\ calls = {"invites.select"}

\* C3 as stated: a submit with a code that matches no invite row and is not
\* the admin sentinel ends with the invalid-code message and makes no
\* backend write.
C3_UnknownCodeFails ==
    [][(/\ SubmitStep /\ ReachesValidation
        /\ inviteCode # Typed(AdminSetup, FALSE)
        /\ inviteCode.code \notin DOMAIN invites)
       => /\ authError' = MsgInvalidCode
          /\ user' = None /\ view' = "AUTH" /\ authMode' = authMode
          /\ NoBackendWrite
      ]_vars

\* C3 amended: in online mode, a submit with a code that matches no invite
\* row and is not the admin sentinel ends with the invalid-code message,
\* the user stays signed out on the AUTH screen, and no backend call but
\* the lookup is made: the invites and profiles tables are unchanged.
C3_UnknownCodeFailsOnline ==
    [][(/\ SubmitStep /\ ~isMockMode /\ ReachesValidation
        /\ inviteCode # Typed(AdminSetup, FALSE)
        /\ inviteCode.code \notin DOMAIN invites)
       => /\ authError' = MsgInvalidCode
          /\ user' = None /\ view' = "AUTH" /\ authMode' = authMode
          /\ calls' = {"invites.select"}
          /\ NoBackendWrite
      ]_vars

\* an unknown code was refused online
C3_UnknownCodeRefused ==
    /\ ~isMockMode
    /\ inviteCode = Typed(Code("G15-J", 3), FALSE)
    /\ Code("G15-J", 3) \notin DOMAIN invites
    /\ authError = MsgInvalidCode
    /\ calls = {"invites.select"}
    /\ user = None /\ view = "AUTH"

\* C4: a submit with the admin sentinel code, whether it fails, signs in or
\* signs up, makes no call on the invites table and leaves every invite row
\* as it was.
C4_AdminSetupNeverTouchesInvites ==
    [][(SubmitStep /\ inviteCode = Typed(AdminSetup, FALSE))
       => /\ invites' = invites
          /\ calls' \cap {"invites.select", "invites.update", "invites.insert"} = {}
      ]_vars

\* the admin signed in again with the account an earlier sign-up created,
\* next to an unused invite
C4_AdminSignedInAgain ==
    /\ ~isMockMode
    /\ user # None /\ isAdmin /\ view = "HOME"
    /\ \E u \in user : u.segment = "ADMIN" /\ (\E a \in accounts : a.id = u.user_id)
    /\ "auth.signInWithPassword" \in calls /\ "auth.signUp" \notin calls
    /\ \E c \in DOMAIN invites : ~invites[c].is_used

\* C11: under mock mode no backend call is attempted: whatever the user does,
\* the last handler made no call on the backend client.
C11_MockModeMakesNoCalls == isMockMode => calls = {}

\* C12: when guests redeem the same unused invite code with their requests
\* interleaved, at most one of them creates a profile from the code, and
\* the invite row, once used, never changes again (it goes from unused to
\* used once and stays bound to one identity).
C12_ProfilesFromCode(code) ==
    {c \in ClientIds : clients[c].code = code /\ clients[c].created # {}}

C12_InterleavedRedemptionBindsOnce ==
    /\ [](\A code \in DOMAIN invites : Cardinality(C12_ProfilesFromCode(code)) <= 1)
    /\ [][\A code \in DOMAIN invites :
            invites[code].is_used => invites'[code] = invites[code]]_vars

\* a submit of the code form of either App whose code validates online
CodeValidatesOnline ==
    /\ ~isMockMode /\ authMode = "CODE"
    /\ inviteCode # Typed(NoCode, FALSE)
    /\ validateCode(ToUpperCase(inviteCode)).error = ""
    /\ validateCode(ToUpperCase(inviteCode)).invite # None

\* C13: online, a submit of the code form whose code validates attempts an
\* anonymous session; it ends either signed in with the profile, authMode
\* still CODE (EMAIL_REQUIRED is never entered), or in EMAIL_REQUIRED with
\* the entered code kept and nothing written, or with an error surfaced in
\* authError.
C13_AnonymousSessionFirst ==
    [][((handleAuth \/ handleAuth_Earlier) /\ CodeValidatesOnline)
       => /\ "auth.signInAnonymously" \in calls'
          /\ \/ user' # None /\ authMode' = "CODE" /\ view' # "AUTH"
             \/ /\ user' = None /\ authMode' = "EMAIL_REQUIRED"
                /\ inviteCode' = inviteCode /\ authError' = ""
                /\ profiles' = profiles /\ invites' = invites
             \/ user' = None /\ authMode' = "CODE" /\ authError' # ""
      ]_vars

\* a submit of the email form with the admin code, an email and a password
AdminSubmit ==
    /\ handleEmailAuth \/ handleEmailAuth_Earlier
    /\ email # "" /\ password # ""
    /\ validateCode(ToUpperCase(inviteCode)).error = ""
    /\ validateCode(ToUpperCase(inviteCode)).invite # None
    /\ The(validateCode(ToUpperCase(inviteCode)).invite).code = AdminSetup

\* C14: a submit of the email form with the admin code attempts the
\* password sign-in; it attempts sign-up if and only if the sign-in is
\* answered 'invalid credentials', and a submit registers at most one
\* account; a successful sign-up enters as admin with the account just
\* registered; a submit that ends signed out writes no profile and, unless
\* the sign-in itself was accepted (a session exists), sets authError: any
\* other sign-in error and any sign-up error is surfaced.
C14_AdminSignInThenSignUpOnce ==
    [][AdminSubmit
       => /\ "auth.signInWithPassword" \in calls'
          /\ \A o1 \in PasswordOutcomes, o2 \in SignUpOutcomes :
                ((o1 = "invalid" /\ o2 = "user") => HasFreshId(Flow))
                => LET r == PasswordAuth(Flow, o1, o2)
                   IN  /\ ("auth.signUp" \in r.flow.calls) <=> (o1 = "invalid")
                       /\ (r.error # "") => r.userId = None
                       /\ (r.userId = None /\ o1 # "nouser") => r.error # ""
                       /\ (r.userId = None) => r.flow.accounts = accounts
          /\ "auth.signUp" \in calls' => AccountOf(email, password) = {}
          /\ Cardinality(accounts' \ accounts) <= 1
          /\ accounts' # accounts => "auth.signUp" \in calls'
          /\ user' = None
                => /\ profiles' = profiles /\ view' = "AUTH"
                   /\ session' = None => authError' # ""
          /\ ("auth.signUp" \in calls' /\ user' # None)
                => /\ isAdmin' /\ The(user').segment = "ADMIN"
                   /\ accounts' \ accounts =
                        {[email |-> email, password |-> password,
                          id |-> The(user').user_id]}
      ]_vars

\* the admin has just been registered and entered
C14_AdminBootstrapped ==
    /\ user # None /\ isAdmin /\ "auth.signUp" \in calls
    /\ \E a \in accounts : a.id = The(user).user_id

\* a submit of the email form with an email and a valid code that is not
\* the admin code
LinkSubmit ==
    /\ handleEmailAuth \/ handleEmailAuth_Earlier
    /\ email # ""
    /\ validateCode(ToUpperCase(inviteCode)).error = ""
    /\ validateCode(ToUpperCase(inviteCode)).invite # None
    /\ The(validateCode(ToUpperCase(inviteCode)).invite).code # AdminSetup

\* C15: a submit of the email form with a non-admin code requests one
\* one-time link and nothing else from the identity service; it writes no
\* profile, no invite row and no identity, and leaves the user signed out
\* on the AUTH screen; magicLinkSent is set exactly when the request was
\* accepted (no error surfaced).  While magicLinkSent is set, every step
\* but the button 'Volver' leaves the flow where it is: magicLinkSent set,
\* view AUTH, no user, and no profile written by this browser.
C15_LinkSentAndPaused ==
    /\ [][LinkSubmit
          => /\ "auth.signInWithOtp" \in calls'
             /\ calls' \subseteq {"invites.select", "auth.signInWithOtp"}
             /\ profiles' = profiles /\ invites' = invites
             /\ identities' = identities /\ accounts' = accounts
             /\ user' = None /\ view' = "AUTH" /\ authMode' = "EMAIL_REQUIRED"
             /\ magicLinkSent' <=> (authError' = "")
         ]_vars
    /\ [][(magicLinkSent /\ ~backFromMagicLink)
          => /\ magicLinkSent' /\ user' = None /\ view' = "AUTH"
             /\ profiles' # profiles => \E c \in DOMAIN invites : otherClientRedeems(c)
         ]_vars

\* the link has been sent and the notice is on the screen
C15_MagicLinkNotice ==
    /\ magicLinkSent /\ "auth.signInWithOtp" \in calls
    /\ user = None /\ view = "AUTH"

\* the invites createProfileAndEnter can be handed: the rows of the table
\* and the admin's virtual invite
InvitesEntered ==
    {[code |-> c, segment |-> invites[c].segment, is_used |-> invites[c].is_used] :
        c \in DOMAIN invites}
    \cup {[code |-> AdminSetup, segment |-> "ADMIN", is_used |-> FALSE]}

\* C16: online, createProfileAndEnter called with an identity that has a
\* stored profile, whatever the invite entered, inserts no profile, leaves
\* every invite row as it is and makes the stored profile, with its name and
\* segment, the session user; and a submit that enters with an identity
\* whose profile was stored before does the same.
C16_StoredProfileWins ==
    /\ [](~isMockMode =>
           \A p \in profiles, invite \in InvitesEntered, pError \in BOOLEAN :
              LET r == IF app = "current"
                       THEN createProfileAndEnter(Flow, p.user_id, invite)
                       ELSE createProfileAndEnter_Earlier(Flow, p.user_id, invite, pError)
              IN  /\ r.profiles = profiles /\ r.invites = invites
                  /\ "profiles.insert" \notin r.calls
                  /\ "invites.update" \notin r.calls
                  /\ The(r.user).user_id = p.user_id
                  /\ The(r.user).name = p.name
                  /\ The(r.user).segment = p.segment)
    /\ [][(/\ SubmitStep /\ ~isMockMode
           /\ user' # None
           /\ SelectProfile(profiles, The(user').user_id) # {})
          => /\ profiles' = profiles /\ invites' = invites
             /\ user' = SelectProfile(profiles, The(user').user_id)
         ]_vars

\* a submit has entered with a stored profile: the lookup found it and no
\* insert followed
C16_EnteredWithStoredProfile ==
    /\ ~isMockMode /\ user # None /\ view # "AUTH"
    /\ The(user) \in profiles
    /\ "profiles.select" \in calls /\ "profiles.insert" \notin calls

\* C17: a submit that gets as far as validating the code ends in one of
\* three ways.  Failure: a message in authError, and the flow at the code
\* form (authMode CODE, view AUTH, no user).  Success: the profile is the
\* session user, the view has left AUTH, no message.  Or the flow goes on:
\* no message, no user, the email form or the magic-link notice.
C17_FailureReturnsToCodeForm ==
    [][(/\ SubmitStep /\ ReachesValidation
        /\ (authMode = "EMAIL_REQUIRED" /\ inviteCode = Typed(AdminSetup, FALSE))
              => password # "")
       => \/ /\ authError' # ""
             /\ authMode' = "CODE" /\ view' = "AUTH" /\ user' = None
          \/ /\ authError' = ""
             /\ user' # None /\ view' # "AUTH"
          \/ /\ authError' = ""
             /\ user' = None /\ view' = "AUTH" /\ authMode' = "EMAIL_REQUIRED"
      ]_vars

\* C18: a logout releases both live subscriptions: after handleLogout no
\* chat channel and no theme channel of the browser is open; and a chat row
\* inserted while nobody is signed in is not queued for the browser's
\* message list.
C18_LogoutReleasesSubscriptions ==
    /\ [][(handleLogout \/ handleLogout_Earlier)
          => chatSubs' = <<>> /\ ~themeSub']_vars
    /\ [][(user = None /\ chatRows' > chatRows)
          => \A i \in DOMAIN chatSubs' : chatRows' \notin chatSubs'[i]]_vars

\* C19: at any time the browser has at most one chat channel open, and no
\* row of chat_messages is in the message list more than once.
C19_OneChatSubscription ==
    /\ [](Len(chatSubs) <= 1)
    /\ [](\A r \in 1..chatRows :
            Cardinality({k \in DOMAIN messages : messages[k] = r}) <= 1)

\* C20: a browser that dies between the insert of the profile and the
\* update of the invite leaves the invite unused and no profile of its
\* identity; and when its next attempt, with the same code, has entered,
\* the invite is used, bound to the identity it entered with, and the
\* browser has inserted exactly one profile, the one of that identity.
C20_CrashBetweenWritesIsRecoverable ==
    /\ [][\A c \in ClientIds :
            (clientCrash(c) /\ clients[c].pc = "inserted")
            => /\ ~invites[clients[c].code].is_used
               /\ SelectProfile(profiles, The(clients[c].userId)) = {}]_vars
    /\ [](\A c \in ClientIds :
            (clients[c].crashedAt = "inserted" /\ clients[c].pc = "done")
            => /\ invites[clients[c].code].is_used
               /\ invites[clients[c].code].used_by = clients[c].userId
               /\ Cardinality(clients[c].created) = 1
               /\ \A p \in clients[c].created : p.user_id = The(clients[c].userId))

\* C21: every submit of the code form or the email form leaves the loading
\* flag false once its backend calls have answered, whatever they answered.
C21_SubmitEndsInteractive ==
    [][SubmitStep => ~loading']_vars

\* C22: once the user has logged out, an answer that arrives late changes
\* nothing of the session state (rsvp, messages, publicPhotos stay as they
\* are), and that state holds nothing of the user who logged out: no RSVP,
\* no message, no photo.
C22_LateAnswersAreDiscarded ==
    /\ [][(user = None /\ user' = None)
          => /\ rsvp' = rsvp /\ messages' = messages
             /\ publicPhotos' = publicPhotos]_vars
    /\ [](user = None => rsvp = None /\ messages = <<>> /\ publicPhotos = {})

\* C23: online, the message list loadUserData of the current App fills is
\* in the order of creation: rows are numbered as they are inserted, and no
\* entry of messages is followed by one of a row inserted earlier.
C23_MessagesAscending ==
    (~isMockMode /\ app = "current") =>
        \A i, j \in DOMAIN messages : i < j => messages[i] <= messages[j]

TableNames == {"", "1", "2"}

\* inviteMap[p.user_id] || null: the code a profile was registered with
InviteOf(uid) ==
    LET used == {c \in DOMAIN invites : invites[c].used_by = Some(uid)}
    IN  IF used = {} THEN None ELSE Some(CHOOSE c \in used : TRUE)

\* profiles.map(p => ({...p, invite})).sort(created_at descending); the
\* backend issues identities in ascending order, so the newest profile is
\* the one with the highest user_id
RECURSIVE Combined(_)
Combined(ps) ==
    IF ps = {} THEN <<>>
    ELSE LET p == CHOOSE q \in ps : \A r \in ps : r.user_id <= q.user_id
         IN  <<p @@ [invite |-> InviteOf(p.user_id)]>> \o Combined(ps \ {p})

\* fetchGuests, run when the GUESTS tab is shown
fetchGuests ==
    /\ view = "ADMIN" /\ isAdmin /\ ~isMockMode /\ activeTab = "GUESTS"
    /\ guests' = Combined(profiles)
    /\ calls' = {"profiles.select", "invites.select"}
    /\ UNCHANGED <<cfgVars, invites, clock, adminVars, photoVars, rsvpVars, toast,
                   app, user, view, isAdmin, identityVars, authVars, chatVars, loadVars,
                   clients, uploadVars, generators>>

\* from('profiles').update({ table: newTable }).eq('user_id', userId)
UpdateProfileTable(table, userId, newTable) ==
    {IF p.user_id = userId THEN [p EXCEPT !.table = Some(newTable)] ELSE p : p \in table}

\* prev.map that rewrites every entry
MapTable_AllRows(prev, userId, newTable) ==
    [i \in DOMAIN prev |-> [prev[i] EXCEPT !.table = Some(newTable)]]

\* prev.map(g => g.user_id === userId ? { ...g, table: newTable } : g)
MapTable(prev, userId, newTable) ==
    [i \in DOMAIN prev |->
        IF prev[i].user_id = userId THEN [prev[i] EXCEPT !.table = Some(newTable)]
        ELSE prev[i]]

\* updateTable(guest.user_id, e.target.value), called when the Mesa input of
\* a row of the list loses focus; the user_id of a row is never empty
updateTable(userId, newTable, error) ==
    /\ view = "ADMIN" /\ isAdmin
    /\ \E i \in DOMAIN guests : guests[i].user_id = userId
    /\ calls' = {"profiles.update"}
    /\ IF ~error
       THEN /\ profiles' = UpdateProfileTable(profiles, userId, newTable)
            /\ toast' = Toast("Mesa actualizada", "success")
            /\ guests' = MapTable(guests, userId, newTable)
       ELSE /\ profiles' = profiles
            /\ toast' = Toast("Error al actualizar", "error")
            /\ guests' = guests
    /\ UNCHANGED <<cfgVars, invites, clock, adminVars, photoVars, rsvpVars,
                   app, user, view, isAdmin, identities, accounts, session, authVars,
                   chatVars, loadVars, clients, uploadVars, generators>>

\* updateTable of another admin's browser: only the backend row is seen
\* here, and this browser makes no call
otherAdminUpdatesTable(userId, newTable) ==
    /\ ~isMockMode
    /\ \E p \in profiles : p.user_id = userId /\ p.table # Some(newTable)
    /\ profiles' = UpdateProfileTable(profiles, userId, newTable)
    /\ calls' = {}
    /\ UNCHANGED <<cfgVars, invites, clock, adminVars, photoVars, rsvpVars, toast,
                   app, user, view, isAdmin, identities, accounts, session, authVars,
                   chatVars, loadVars, clients, uploadVars, panelVars>>

\* the guest tab: an admin in the panel, two guests registered, the list
\* not fetched yet
InitTable ==
    /\ InitConfig(Some(RealUrl), Some(RealKey))
    /\ app = "current"
    /\ invites = InitInvites /\ rsvps = {} /\ photos = <<>> /\ upsertLog = <<>>
    /\ clock = 0
    /\ InitAdmin
    /\ InitRsvpCard
    /\ identities = {0, 1, 2} /\ accounts = {AdminAccount} /\ session = Some(0)
    /\ profiles = {AdminProfile, GuestProfile(1), GuestProfile(2)}
    /\ user = Some(AdminProfile) /\ isAdmin = TRUE
    /\ InitAuthForm
    /\ InitLive(TRUE)
    /\ view = "ADMIN" /\ toast = None

NextTable ==
    \/ fetchGuests
    \/ \E u \in {0} \cup UserIds, t \in TableNames, error \in BOOLEAN : updateTable(u, t, error)
    \/ \E u \in {0} \cup UserIds, t \in TableNames : otherAdminUpdatesTable(u, t)

SpecTable == InitTable /\ [][NextTable]_vars

\* C25: updateTable(userId, t) writes the table value of the profile with
\* that user_id and of no other profile, and writes no other column; in the
\* local guest list it changes the table of the entry with that user_id and
\* nothing else; when the backend refuses the write, neither the profiles
\* nor the local list change.
TableStep == calls' = {"profiles.update"}
batchFrame ==
    <<cfgVars, clock, adminVars, photoVars, rsvpVars, toast, calls,
      app, user, view, isAdmin, identityVars, authVars, chatVars, loadVars, clients,
      uploadVars, guests>>

\* batchGenerate up to its select: setGenerating(true), the prefix, the request
batchStarted(g, segment, amount) ==
    /\ ~isMockMode
    /\ generators[g].pc = "idle"
    /\ generators' = [generators EXCEPT ![g] =
            [pc |-> "select", segment |-> segment, amount |-> amount, seen |-> {},
             rows |-> <<>>, toast |-> None]]
    /\ UNCHANGED <<invites, batchFrame>>

\* the select of the last code is answered: startNum, the loop, the insert
\* request; seen records the codes the select ran over
batchSelectAnswered(g) ==
    LET prefix == PrefixOf(generators[g].segment)
        startNum == StartNum(prefix)
    IN  /\ generators[g].pc = "select"
        /\ startNum + generators[g].amount - 1 <= MaxNum
        /\ generators' = [generators EXCEPT
              ![g].pc = "insert",
              ![g].seen = DOMAIN invites,
              ![g].rows = BuildInvites(prefix, generators[g].segment, startNum,
                                       generators[g].amount)]
        /\ UNCHANGED <<invites, batchFrame>>

\* an insert that the backend applies whatever codes exist
batchInsertAnswered_NoConstraint(g) ==
    /\ generators[g].pc = "insert"
    /\ invites' = InsertInvites(generators[g].rows)
    /\ generators' = [generators EXCEPT
            ![g] = [IdleGenerator EXCEPT !.toast = Toast("Generados", "success")]]
    /\ UNCHANGED batchFrame

\* the insert is answered: the toast, setGenerating(false); the rows are
\* local to the call and gone when it returns
batchInsertAnswered(g) ==
    /\ generators[g].pc = "insert"
    /\ IF InsertRejected(generators[g].rows)
       THEN /\ invites' = invites
            /\ generators' = [generators EXCEPT
                    ![g] = [IdleGenerator EXCEPT !.toast = Toast("Error generando", "error")]]
       ELSE /\ invites' = InsertInvites(generators[g].rows)
            /\ generators' = [generators EXCEPT
                    ![g] = [IdleGenerator EXCEPT !.toast = Toast("Generados", "success")]]
    /\ UNCHANGED batchFrame

\* two admins in their panels, the invites table empty
InitBatch ==
    /\ InitConfig(Some(RealUrl), Some(RealKey))
    /\ app = "current"
    /\ invites = <<>> /\ rsvps = {} /\ photos = <<>> /\ upsertLog = <<>>
    /\ clock = 0
    /\ InitAdmin
    /\ InitRsvpCard
    /\ InitAdminSession
    /\ view = "ADMIN" /\ toast = None

\* the amounts the two admins pick
BatchAmounts == {50, 100}

NextBatch ==
    \/ \E g \in GeneratorIds, s \in {"YOUNG", "ADULT"}, n \in BatchAmounts : batchStarted(g, s, n)
    \/ \E g \in GeneratorIds : batchSelectAnswered(g)
    \/ \E g \in GeneratorIds : batchInsertAnswered(g)

SpecBatch == InitBatch /\ [][NextBatch]_vars

\* C26: two calls of batchGenerate for the same segment whose selects ran
\* over the same codes, before either inserted, hold rows that start at the
\* same number, so the shorter list of codes is a prefix of the longer; the
\* client does nothing about it: an insert is refused exactly when one of its
\* codes exists in the table, by the uniqueness of the code column, and a
\* refused insert writes nothing.
InsertPending(g) == generators[g].pc = "insert"
C26_InterleavedBatchesCollide ==
    /\ [](\A g, h \in GeneratorIds :
            (/\ g # h /\ InsertPending(g) /\ InsertPending(h)
             /\ generators[g].segment = generators[h].segment
             /\ generators[g].seen = generators[h].seen)
            => \A i \in DOMAIN generators[g].rows \cap DOMAIN generators[h].rows :
                  generators[g].rows[i].code = generators[h].rows[i].code)
    /\ [][\A g \in GeneratorIds :
            (InsertPending(g) /\ generators'[g].pc = "idle") =>
                IF \E i \in DOMAIN generators[g].rows :
                        generators[g].rows[i].code \in DOMAIN invites
                THEN /\ invites' = invites
                     /\ The(generators'[g].toast).type = "error"
                ELSE /\ The(generators'[g].toast).type = "success"
                     /\ \A i \in DOMAIN generators[g].rows :
                            generators[g].rows[i].code \in DOMAIN invites']_vars

\* the first admin's fifty codes are in the table, and the second admin, who
\* read the table when it was empty, holds the same fifty codes to insert
C26_SameCodesTwice ==
    /\ generators[1].pc = "idle"
    /\ generators[1].toast = Toast("Generados", "success")
    /\ InsertPending(2) /\ generators[2].seen = {}
    /\ Len(generators[2].rows) = 50
    /\ DOMAIN invites = {generators[2].rows[i].code : i \in 1..50}

\* ------------------------------------------------- the page is loaded

\* the names a guest may type in the profile form, the admin's among them
DisplayNames == Names \cup {"Administrador"}

\* the state of the useState calls of App, before initApp
Mounted ==
    [Flow EXCEPT !.user = None, !.isAdmin = FALSE, !.view = "AUTH", !.rsvp = None,
                 !.messages = <<>>, !.publicPhotos = {}, !.chatSubs = <<>>,
                 !.inviteCode = Typed(NoCode, FALSE), !.authError = "",
                 !.authMode = "CODE", !.email = "", !.password = "",
                 !.magicLinkSent = FALSE, !.loading = TRUE, !.toast = None]

\* the page is opened or reloaded with one of the two forms of the App, both
\* of which talk to the same backend: initApp asks for the session and, when
\* the session has a profile, calls loginUser with it; then setLoading(false)
initApp(build) ==
    /\ view # "AUTH"
    /\ LET f == [Mounted EXCEPT !.calls = IF isMockMode THEN {}
                                          ELSE {"auth.getSession"}]
           found == IF isMockMode \/ session = None THEN {}
                    ELSE SelectProfile(profiles, The(session))
       IN  IF found = {} THEN CommitIn(Done(f), build)
           ELSE LET g == [f EXCEPT !.calls = @ \cup {"profiles.select"}]
                    profile == CHOOSE p \in found : TRUE
                IN  CommitIn(Done(IF build = "current" THEN loginUser(g, profile)
                                  ELSE loginUser_Earlier(g, profile)),
                             build)

\* the admin flag: the auth screen of either form of the App, the guests'
\* invites in the table when online
InitFlag == InitAuth

NextFlag ==
    \/ \E t \in {Typed(AdminSetup, FALSE), Typed(Code("G15-J", 1), FALSE)} : setInviteCode(t)
    \/ setEmail(AdminAccount.email)
    \/ setPassword(AdminAccount.password)
    \/ handleAuth
    \/ handleAuth_Earlier
    \/ handleEmailAuth
    \/ handleEmailAuth_Earlier
    \/ \E name \in DisplayNames, error \in BOOLEAN : saveProfile(name, error)
    \/ openAdminPanel
    \/ volverAHome
    \/ volver_Earlier
    \/ handleLogout
    \/ handleLogout_Earlier
    \/ \E build \in {"current", "earlier"} : initApp(build)

SpecFlag == InitFlag /\ [][NextFlag]_vars

\* C27: whenever isAdmin is set, a user is signed in and its segment is
\* ADMIN; whenever the admin view is shown, isAdmin is set.  So no sequence
\* of logins, profile setups and logouts leaves a guest with isAdmin set or
\* in the admin view.
C27_AdminFlagOnlyForAdmins ==
    /\ isAdmin => (user # None /\ The(user).segment = "ADMIN")
    /\ view = "ADMIN" => isAdmin

\* the admin view is shown to a signed-in guest
C27_GuestInAdminView ==
    ~(view = "ADMIN" /\ user # None /\ The(user).segment # "ADMIN")

\* a guest with a stored RSVP is at HOME, in either form of the App, online;
\* an unused invite code waits for the next guest of this browser
InitSwitch ==
    /\ InitConfig(Some(RealUrl), Some(RealKey))
    /\ app \in {"current", "earlier"}
    /\ invites = InitInvites
    /\ identities = {1} /\ accounts = {} /\ session = Some(1)
    /\ profiles = {GuestProfile(1)}
    /\ rsvps = {OtherRsvpRow(1)} /\ upsertLog = <<>> /\ photos = <<>>
    /\ clock = 0
    /\ InitAdmin
    /\ InitAuthForm
    /\ InitLive(TRUE)
    /\ rsvp = Some(OtherRsvpRow(1))
    /\ rsvpStatus = "CONFIRMED" /\ note = "sin TACC" /\ saving = FALSE
    /\ user = Some(GuestProfile(1)) /\ isAdmin = FALSE
    /\ view = "HOME" /\ toast = None

NextSwitch ==
    \/ handleLogout
    \/ handleLogout_Earlier
    \/ \E t \in {Typed(AdminSetup, FALSE), Typed(Code("G15-J", 1), FALSE)} : setInviteCode(t)
    \/ setEmail(AdminAccount.email)
    \/ setPassword(AdminAccount.password)
    \/ handleAuth
    \/ handleAuth_Earlier
    \/ handleEmailAuth
    \/ handleEmailAuth_Earlier
    \/ otherGuestSends

SpecSwitch == InitSwitch /\ [][NextSwitch]_vars

\* C28: the RSVP a signed-in user is shown at HOME is that user's own row;
\* with nobody signed in no RSVP is held.  The chat is one room for all
\* guests, so of the three pieces of data only the RSVP belongs to a user.
C28_RsvpIsTheUsers ==
    /\ (user # None /\ view = "HOME" /\ rsvp # None)
            => The(rsvp).user_id = The(user).user_id
    /\ (user # None /\ view = "HOME" /\ RsvpRowsOf(rsvps, The(user).user_id) = {})
            => rsvp = None

\* C29: online, at HOME, a stored chat message whose delivery is not pending
\* on any channel is in the local list exactly once; and sending a text that
\* is blank after trim makes no call and changes nothing.
TimesListed(row) == Cardinality({i \in DOMAIN messages : messages[i] = row})
DeliveryPending(row) == \E i \in DOMAIN chatSubs : row \in chatSubs[i]
C29_SentMessageListedOnce ==
    /\ (~isMockMode /\ user # None /\ view = "HOME")
            => \A row \in 1..chatRows : ~DeliveryPending(row) => TimesListed(row) = 1
    /\ \A text \in ChatTexts :
            Trim(text) = <<>> =>
                sendMessageFlow(text) = Flow /\ sendFlow_Earlier(text) = Flow

\* C30, in the current App: while the signed-in user is not an admin and its
\* name is empty or one of the 'Invitado ' names, the view is PROFILE_SETUP,
\* and no step that ends there has asked for the RSVP, the chat or the
\* photos; from PROFILE_SETUP the App either stays there with the same user
\* and the same stored profiles (blank name, backend error) or enters HOME
\* with the same identity under a name that is not blank; an admin is at
\* HOME or in the panel, never in the profile form.
Incomplete(profile) ==
    (profile.name = "" \/ profile.name = "Invitado ") /\ profile.segment # "ADMIN"
C30_SetupBeforeHome ==
    /\ []((app = "current" /\ user # None) =>
            /\ Incomplete(The(user)) => view = "PROFILE_SETUP"
            /\ The(user).segment = "ADMIN" => view \in {"HOME", "ADMIN"})
    /\ [][(app' = "current" /\ view' = "PROFILE_SETUP") =>
            calls' \cap LoadUserDataCalls = {}]_vars
    /\ [][(app = "current" /\ app' = "current" /\ view = "PROFILE_SETUP") =>
            \/ view' = "PROFILE_SETUP" /\ user' = user /\ profiles' = profiles
            \/ /\ view' = "HOME" /\ user' # None
               /\ TrimName(The(user').name) # ""
               /\ The(user') = [The(user) EXCEPT !.name = The(user').name]]_vars

\* a guest left the profile form of the current App under the name typed,
\* and the data of HOME was asked for
C30_ProfileCompleted ==
    /\ app = "current" /\ view = "HOME" /\ ~isMockMode
    /\ user # None /\ The(user).segment = "YOUNG" /\ The(user).name = "Ana"
    /\ The(user) \in profiles
    /\ calls = {"profiles.update"} \cup LoadUserDataCalls

====
